---- MODULE Spec2Model ----
(***************************************************************************)
(* flog_otlp: the scenario execution engine (src/src/flog_otlp/scenario.py) *)
(*                                                                         *)
(* ScenarioParser.load_scenario builds the list of steps of a scenario,    *)
(* ScenarioExecutor.execute_scenario starts one thread per step            *)
(* (_schedule_step.step_worker), joins them, and returns a verdict.  Each  *)
(* worker sleeps its start offset, then runs its iterations; an iteration  *)
(* starts the generator process (flog), reads its output line by line,     *)
(* filters, rewrites and delivers the lines, then waits for the process.   *)
(*                                                                         *)
(* Time is a discrete clock: Tick lets one unit of time pass, which takes  *)
(* one unit off every running time.sleep / join(timeout) and adds one unit *)
(* to the elapsed-time observers.  The generator process, the operator     *)
(* (KeyboardInterrupt) and the clock are the environment.                  *)
(***************************************************************************)
EXTENDS Integers, Sequences, FiniteSets, TLC

(* ------------------------------ bounds --------------------------------- *)
MaxSteps == 2        \* steps of a scenario document
MaxStart == 1        \* largest start_time of a step, in clock units
MaxInterval == 1     \* largest interval of a step, in clock units
MaxIter == 2         \* largest iterations value of a step
MaxLines == 2        \* lines one generator process writes at most, in a
                     \* scenario of one step
MaxLinesConcurrent == 0  \* the same, in a scenario of several steps
MaxText == 3         \* characters of a line given to a pure function
MaxRules == 2        \* filters, and rewrite rules, of a step given to one

(* thread.join(timeout=2) in the interruption handler *)
GraceTimeout == 2

(* run_recurring_executions *)
MaxExecutions == 3   \* the largest max_executions
MaxWait == 2         \* the largest wait_time, in seconds
MaxRuns == 4         \* executions followed when max_executions is 0
MaxLogs == 1         \* lines one execution processes at most


(* ------------------------------ text ----------------------------------- *)
(* A string is a sequence of characters; readline keeps the newline.       *)
Whitespace == {" ", "\n"}

RECURSIVE lstrip(_)
lstrip(s) == IF s # <<>> /\ Head(s) \in Whitespace THEN lstrip(Tail(s)) ELSE s

RECURSIVE rstrip(_)
rstrip(s) ==
    IF s # <<>> /\ s[Len(s)] \in Whitespace
    THEN rstrip(SubSeq(s, 1, Len(s) - 1))
    ELSE s

(* str.strip() *)
strip(s) == rstrip(lstrip(s))

(* str.lower(), on the letters of the time units *)
lower(s) ==
    [i \in 1..Len(s) |->
        CASE s[i] = "S" -> "s" [] s[i] = "M" -> "m" [] s[i] = "H" -> "h"
          [] OTHER -> s[i]]

DigitChars == <<"0", "1", "2", "3", "4", "5", "6", "7", "8", "9">>

(* \d *)
Digits == {DigitChars[i] : i \in 1..Len(DigitChars)}

DigitValue(c) == (CHOOSE i \in 1..Len(DigitChars) : DigitChars[i] = c) - 1

(* float() of a string of digits *)
RECURSIVE ToNumber(_)
ToNumber(digits) ==
    IF digits = <<>>
    THEN 0
    ELSE 10 * ToNumber(SubSeq(digits, 1, Len(digits) - 1))
            + DigitValue(digits[Len(digits)])

(* length of the longest prefix of s made of characters of `chars` *)
RECURSIVE span(_, _)
span(s, chars) ==
    IF s # <<>> /\ Head(s) \in chars THEN 1 + span(Tail(s), chars) ELSE 0

(* re.compile(pattern) raises re.error.  The patterns followed are made of *)
(* literal characters and of "(", which opens a group that nothing closes. *)
re_compile_raises(pattern) == \E i \in 1..Len(pattern) : pattern[i] = "("

(* pattern.search(line) for a pattern of literal characters *)
search(pattern, line) ==
    \E i \in 0..(Len(line) - Len(pattern)) :
        SubSeq(line, i + 1, i + Len(pattern)) = pattern

(* pattern.sub with a replacement made anew for each match: a match after  *)
(* the first gets the other digit                                          *)
RECURSIVE sub_from_redraws(_, _, _, _)
sub_from_redraws(pattern, repl, line, i) ==
    IF i + Len(pattern) - 1 > Len(line)
    THEN SubSeq(line, i, Len(line))
    ELSE IF SubSeq(line, i, i + Len(pattern) - 1) = pattern
         THEN repl \o sub_from_redraws(pattern,
                          IF repl = <<"1">> THEN <<"2">>
                          ELSE IF repl = <<"2">> THEN <<"1">> ELSE repl,
                          line, i + Len(pattern))
         ELSE <<line[i]>> \o sub_from_redraws(pattern, repl, line, i + 1)

(* pattern.sub(repl, line) for a non-empty pattern of literal characters   *)
(* and a replacement with no group reference: every non-overlapping match, *)
(* from the left, is replaced; sub_from is the rest of the result from     *)
(* position i of the line on                                               *)
RECURSIVE sub_from(_, _, _, _)
sub_from(pattern, repl, line, i) ==
    IF i + Len(pattern) - 1 > Len(line)
    THEN SubSeq(line, i, Len(line))
    ELSE IF SubSeq(line, i, i + Len(pattern) - 1) = pattern
         THEN repl \o sub_from(pattern, repl, line, i + Len(pattern))
         ELSE <<line[i]>> \o sub_from(pattern, repl, line, i + 1)

(* (the arguments are bound to their values, which are then used at every  *)
(* position)                                                               *)
sub(pattern, repl, line) ==
    CHOOSE out \in { sub_from(p, r, l, 1) :
                        p \in {pattern}, r \in {repl}, l \in {line} } : TRUE

(* ------------------------- template expansion -------------------------- *)
(* str.replace(old, new, 1) *)
replace_first(s, old, new) ==
    CHOOSE out \in
        { IF \E i \in 1..(Len(t) - Len(old) + 1) :
                 SubSeq(t, i, i + Len(old) - 1) = old
          THEN LET i == CHOOSE i \in 1..(Len(t) - Len(old) + 1) :
                            /\ SubSeq(t, i, i + Len(old) - 1) = old
                            /\ \A j \in 1..(i - 1) :
                                  SubSeq(t, j, j + Len(old) - 1) # old
               IN  SubSeq(t, 1, i - 1) \o new
                       \o SubSeq(t, i + Len(old), Len(t))
          ELSE t : t \in {s} } : TRUE

(* str.replace(old, new) *)
replace(s, old, new) == sub(old, new, s)

(* str(n) for n >= 0 *)
RECURSIVE str(_)
str(n) ==
    IF n < 10 THEN <<DigitChars[n + 1]>>
    ELSE str(n \div 10) \o <<DigitChars[(n % 10) + 1]>>

(* length of the match of %n\[(\d+),(\d+)\] at position i of the template, *)
(* 0 when there is none                                                    *)
n_pattern(template, i) ==
    LET r == SubSeq(template, i, Len(template))
        a == span(SubSeq(r, 4, Len(r)), Digits)
        b == span(SubSeq(r, 5 + a, Len(r)), Digits)
    IN  IF /\ Len(r) >= 7
           /\ SubSeq(r, 1, 3) = <<"%", "n", "[">>
           /\ a > 0 /\ Len(r) >= 5 + a /\ r[4 + a] = ","
           /\ b > 0 /\ Len(r) >= 5 + a + b /\ r[5 + a + b] = "]"
        THEN 5 + a + b
        ELSE 0

(* length of the match of %x\[(\d+)\], %X\[(\d+)\] or %r\[(\d+)\] (the     *)
(* letter tells which) at position i of the template, 0 when there is none *)
length_pattern(letter, template, i) ==
    LET r == SubSeq(template, i, Len(template))
        a == span(SubSeq(r, 4, Len(r)), Digits)
    IN  IF /\ Len(r) >= 5
           /\ SubSeq(r, 1, 3) = <<"%", letter, "[">>
           /\ a > 0 /\ Len(r) >= 4 + a /\ r[4 + a] = "]"
        THEN 4 + a
        ELSE 0

(* the length of the match of the pattern of a token letter *)
pattern_length(letter, template, i) ==
    IF letter = "n"
    THEN n_pattern(template, i)
    ELSE length_pattern(letter, template, i)

(* pattern.finditer(template): the matches from left to right, each with   *)
(* its text (group 0) and its first and second number (groups 1 and 2)     *)
finditer(letter, template) ==
    LET Match(i) ==
            LET text == SubSeq(template, i,
                            i + pattern_length(letter, template, i) - 1)
                a == span(SubSeq(text, 4, Len(text)), Digits)
                b == span(SubSeq(text, 5 + a, Len(text)), Digits)
            IN  [ text |-> text,
                  first |-> ToNumber(SubSeq(text, 4, 3 + a)),
                  second |-> ToNumber(SubSeq(text, 5 + a, 4 + a + b)) ]
    IN  CHOOSE matches \in
            { [k \in 1..Cardinality(starts) |->
                  Match(CHOOSE i \in starts :
                            Cardinality({j \in starts : j < i}) = k - 1)] :
              starts \in { {i \in 1..Len(template) :
                              pattern_length(letter, template, i) > 0} } } :
            TRUE

(* `for match in pattern.finditer(template): result = result.replace(      *)
(* match.group(0), value)`, from the k-th match on: every occurrence of    *)
(* the text of the match in the result so far is replaced                  *)
RECURSIVE replace_each(_, _, _, _)
replace_each(result, matches, values, k) ==
    IF k > Len(matches)
    THEN result
    ELSE replace_each(replace(result, matches[k].text, values[k]),
                      matches, values, k + 1)

(* the same loop with result.replace(match.group(0), value, 1): the first  *)
(* occurrence of the text of the match in the result so far is replaced    *)
RECURSIVE replace_each_once(_, _, _, _)
replace_each_once(result, matches, values, k) ==
    IF k > Len(matches)
    THEN result
    ELSE replace_each_once(
             replace_first(result, matches[k].text, values[k]),
             matches, values, k + 1)

(* n copies of a character *)
repeat(c, n) == [i \in 1..n |-> c]

(* "-".join(guid_parts) for parts of 8, 4, 4, 4 and 12 digits; the draws   *)
(* followed give every digit the same value                                *)
guid(c) ==
    repeat(c, 8) \o <<"-">> \o repeat(c, 4) \o <<"-">> \o repeat(c, 4)
        \o <<"-">> \o repeat(c, 4) \o <<"-">> \o repeat(c, 12)

(* The random and time-dependent values followed: lorem.sentence(),        *)
(* int(time.time()), the hexadecimal digits, the characters of             *)
(* string.ascii_letters + string.digits and the digits of the GUID         *)
Sentences == { <<"L", "o", "r", "e", "m", ".">> }
Epochs == { <<"1", "7", "0", "0", "0", "0", "0", "0", "0", "0">> }
HexLower == {"0", "e"}
HexUpper == {"0", "E"}
Alphabet == {"g", "7"}
GuidDigits == {"f"}

(* the strings of the given lengths over a set of characters, one for each *)
(* match                                                                   *)
Strings(matches, chars) ==
    { v \in [1..Len(matches) ->
                UNION { [1..matches[k].first -> chars] :
                          k \in 1..Len(matches) }] :
        \A k \in 1..Len(matches) : Len(v[k]) = matches[k].first }

(* What one call of _format_replacement_variables draws: a sentence, an    *)
(* integer of [min, max] for each %n match, the time, a string of n digits *)
(* for each %x and each %X match, a string of n characters for each %r     *)
(* match, and the digits of one GUID                                       *)
Draws(template) ==
    UNION { [ sentence : Sentences,  
                n : { v \in [1..Len(ns) -> 0..9] :
                        \A k \in 1..Len(ns) :
                            v[k] \in ns[k].first..ns[k].second },
                epoch : Epochs,
                x : Strings(xs, HexLower),
                X : Strings(Xs, HexUpper),
                r : Strings(rs, Alphabet),
                g : GuidDigits ] :  
            ns \in {finditer("n", template)},
            xs \in {finditer("x", template)},
            Xs \in {finditer("X", template)},
            rs \in {finditer("r", template)} }

(* the stages of _format_replacement_variables, each from the result of    *)
(* the stage before: %s, %n[x,y], %e, %x[n], %X[n], %r[n], %g              *)
format_s(result, draw) ==
    IF search(<<"%", "s">>, result)
    THEN replace(result, <<"%", "s">>, draw.sentence)
    ELSE result

format_n(result, template, draw) ==
    CHOOSE out \in
        { replace_each(result, ns, [k \in 1..Len(ns) |-> str(draw.n[k])], 1) :
            ns \in {finditer("n", template)} } : TRUE

format_e(result, draw) ==
    IF search(<<"%", "e">>, result)
    THEN replace(result, <<"%", "e">>, draw.epoch)
    ELSE result

format_g(result, draw) ==
    IF search(<<"%", "g">>, result)
    THEN replace(result, <<"%", "g">>, guid(draw.g))
    ELSE result

(* ScenarioStep._format_replacement_variables with the values it draws:    *)
(* the seven kinds of token are replaced one kind after the other in the   *)
(* result so far, the matches of the bracketed tokens being looked for in  *)
(* the template                                                            *)
_format_replacement_variables(template, draw) ==
    CHOOSE result \in
        { format_g(r6, draw) :
            r6 \in { replace_each_once(r5, finditer("r", template),
                                       draw.r, 1) :
            r5 \in { replace_each_once(r4, finditer("X", template),
                                       draw.X, 1) :
            r4 \in { replace_each_once(r3, finditer("x", template),
                                       draw.x, 1) :
            r3 \in { format_e(r2, draw) :
            r2 \in { format_n(r1, template, draw) :
            r1 \in { format_s(template, draw) } } } } } } } : TRUE

(* The lines the generator can write: an empty line, two plain-text lines  *)
(* and a line that is a JSON document but not a JSON object.               *)
Lines == { <<"\n">>, <<"a", "\n">>, <<"b", "\n">>, <<"7", "\n">> }

(* ------------------------- scenario documents -------------------------- *)
(* A decoded YAML value carries its Python type where the code tests it.   *)
Dict(items) == [type |-> "dict", items |-> items]
List(elements) == [type |-> "list", elements |-> elements]
Str(chars) == [type |-> "str", chars |-> chars]
Number(n) == [type |-> "int", number |-> n]
None == [type |-> "NoneType"]

(* dict.get(key, default) *)
get(mapping, key, default) ==
    IF key \in DOMAIN mapping THEN mapping[key] ELSE default

NoParameters == [key \in {} |-> ""]

(* ScenarioStep._parse_duration: a number is returned as it is; a string   *)
(* is stripped, lowered and matched against                                *)
(* ^(\d+(?:\.\d+)?)\s*([smh]?)$.  The result is in whole seconds: the      *)
(* fractional digits of the strings followed are zeros.                    *)
duration_match(s) ==
    LET whole == span(s, Digits)
        r1 == SubSeq(s, whole + 1, Len(s))
        fraction == IF r1 # <<>> /\ Head(r1) = "."
                    THEN span(Tail(r1), Digits)
                    ELSE 0
        r2 == IF fraction > 0 THEN SubSeq(r1, fraction + 2, Len(r1)) ELSE r1
        r3 == lstrip(r2)
        unit == IF r3 # <<>> /\ Head(r3) \in {"s", "m", "h"}
                THEN <<Head(r3)>>
                ELSE <<>>
    IN  [ matched |-> whole > 0 /\ Len(r3) = Len(unit),
          value |-> SubSeq(s, 1, whole),
          unit |-> unit ]

unit_multipliers(unit) ==
    CASE unit = <<>> -> 1
      [] unit = <<"s">> -> 1
      [] unit = <<"m">> -> 60
      [] unit = <<"h">> -> 3600

(* _parse_duration matching the string as it is given *)
_parse_duration_raises_unstripped(duration_str) ==
    /\ duration_str.type # "int"
    /\ ~duration_match(lower(duration_str.chars)).matched

_parse_duration_raises(duration_str) ==
    /\ duration_str.type # "int"
    /\ ~duration_match(lower(strip(duration_str.chars))).matched

_parse_duration(duration_str) ==
    IF duration_str.type = "int"
    THEN duration_str.number
    ELSE LET match == duration_match(lower(strip(duration_str.chars)))
         IN  ToNumber(match.value) * unit_multipliers(match.unit)

(* a replacement that is not a dict with the keys `pattern` and            *)
(* `replacement`                                                           *)
replacement_malformed(replacement) ==
    \/ replacement.type # "dict"
    \/ "pattern" \notin DOMAIN replacement.items
    \/ "replacement" \notin DOMAIN replacement.items

(* ScenarioStep.__init__ raises: step_data.get on a value that is no dict, *)
(* a duration that does not parse, a filter or a replacement pattern that  *)
(* does not compile, a replacement of the wrong shape                      *)
ScenarioStep_raises(step_data) ==
    \/ step_data.type # "dict"
    \/ LET d == step_data.items
           filters == get(d, "filters", <<>>)
           replacements == get(d, "replacements", <<>>)
       IN  \/ _parse_duration_raises(get(d, "start_time", Str(<<"0", "s">>)))
           \/ _parse_duration_raises(get(d, "interval", Str(<<"1", "0", "s">>)))
           \/ \E j \in 1..Len(filters) : re_compile_raises(filters[j])
           \/ \E j \in 1..Len(replacements) :
                 \/ replacement_malformed(replacements[j])
                 \/ re_compile_raises(replacements[j].items.pattern)

(* ScenarioStep.__init__: the step built from step_data; compiled_filters  *)
(* are the filters, compiled_replacements the (pattern, replacement) pairs *)
ScenarioStep(step_data) ==
    LET d == step_data.items
        replacements == get(d, "replacements", <<>>)
    IN  [ start_time_seconds |->
              _parse_duration(get(d, "start_time", Str(<<"0", "s">>))),
          interval_seconds |->
              _parse_duration(get(d, "interval", Str(<<"1", "0", "s">>))),
          iterations |-> get(d, "iterations", 1),
          parameters |-> get(d, "parameters", NoParameters),
          filters |-> get(d, "filters", <<>>),
          replacements |->
              [j \in 1..Len(replacements) |->
                  <<replacements[j].items.pattern,
                    replacements[j].items.replacement>>] ]

(* matches_filters requiring every filter to match *)
matches_filters_all(step, log_line) ==
    \A j \in 1..Len(step.filters) : search(step.filters[j], log_line)

(* ScenarioStep.matches_filters *)
matches_filters(step, log_line) ==
    IF step.filters = <<>>
    THEN TRUE
    ELSE \E j \in 1..Len(step.filters) : search(step.filters[j], log_line)

(* pattern.sub(template, line) raises re.error: the template is parsed     *)
(* before the line is searched, and a reference to a group raises since    *)
(* the patterns followed have no group                                     *)
template_raises(template) ==
    \E i \in 1..(Len(template) - 1) :
        template[i] = "\\" /\ template[i + 1] \in {"1", "2", "3"}

(* ScenarioStep.apply_replacements raises, whatever the line *)
apply_replacements_raises(step) ==
    \E j \in 1..Len(step.replacements) :
        template_raises(step.replacements[j][2])

(* What one call of apply_replacements draws: the values of one call of   *)
(* _format_replacement_variables for each rule                             *)
RuleDraws(step) ==
    LET rules == step.replacements IN
    { draws \in [1..Len(rules) ->
                    UNION { Draws(rules[j][2]) : j \in 1..Len(rules) }] :
        \A j \in 1..Len(rules) : draws[j] \in Draws(rules[j][2]) }

(* apply_rules with the rules taken from the last to the first *)
RECURSIVE apply_rules_reversed(_, _, _, _)
apply_rules_reversed(rules, n, line, draws) ==
    IF n = 0
    THEN line
    ELSE apply_rules_reversed(rules, n - 1,
             sub(rules[n][1],
                 _format_replacement_variables(rules[n][2], draws[n]),
                 line),
             draws)

(* ScenarioStep.apply_replacements: the rules are applied in order, each   *)
(* to the output of the one before; the template of a rule is expanded     *)
(* once, then pattern.sub puts the expanded text at every match.           *)
RECURSIVE apply_rules(_, _, _, _)
apply_rules(rules, n, line, draws) ==
    IF n = 0
    THEN line
    ELSE sub(rules[n][1],
             _format_replacement_variables(rules[n][2], draws[n]),
             apply_rules(rules, n - 1, line, draws))

apply_replacements(step, log_line, draws) ==
    IF step.replacements = <<>>
    THEN log_line
    ELSE apply_rules(step.replacements, Len(step.replacements), log_line,
                     draws)

(* parse_key_value_pairs: the pairs of the items that hold "=", split at   *)
(* the first "=", key and value stripped.  The values followed are text    *)
(* that is neither quoted nor a boolean nor a number.                      *)
split_key(item) ==
    LET i == CHOOSE i \in 1..Len(item) :
                 item[i] = "=" /\ \A j \in 1..(i - 1) : item[j] # "="
    IN  strip(SubSeq(item, 1, i - 1))

split_value(item) ==
    LET i == CHOOSE i \in 1..Len(item) :
                 item[i] = "=" /\ \A j \in 1..(i - 1) : item[j] # "="
    IN  strip(SubSeq(item, i + 1, Len(item)))

parse_key_value_pairs(values_list) ==
    LET wellformed == {n \in 1..Len(values_list) :
                          \E i \in 1..Len(values_list[n]) :
                              values_list[n][i] = "="}
    IN  [key \in {split_key(values_list[n]) : n \in wellformed} |->
            LET last == CHOOSE n \in wellformed :
                            /\ split_key(values_list[n]) = key
                            /\ \A m \in wellformed :
                                  split_key(values_list[m]) = key => m <= n
            IN  split_value(values_list[last])]

(* dict.update *)
update(mapping, other) ==
    [key \in DOMAIN mapping \cup DOMAIN other |->
        IF key \in DOMAIN other THEN other[key] ELSE mapping[key]]

(* The sender the executor is given: OTLPLogSender.__init__ with one       *)
(* resource attribute and no delay                                         *)
OTLPLogSender ==
    [ endpoint |-> "http://localhost:4318/v1/logs",
      service_name |-> "flog-generator",
      delay |-> 0,
      otlp_headers |-> NoParameters,
      otlp_attributes |-> [key \in {<<"k">>} |-> <<"base">>],
      telemetry_attributes |-> NoParameters,
      log_format |-> "apache_common" ]

NoSender == [endpoint |-> "none"]

(* ScenarioExecutor._create_step_sender, when it does not raise: a new     *)
(* sender built from the fields of the base sender, with copies of its     *)
(* three mappings, which the parameters of the step then override          *)
_create_step_sender(base, parameters) ==
    LET given(key) == key \in DOMAIN parameters IN
    [ endpoint |-> IF given("otlp_endpoint")
                   THEN parameters["otlp_endpoint"]
                   ELSE base.endpoint,
      service_name |-> IF given("service_name")
                       THEN parameters["service_name"]
                       ELSE base.service_name,
      delay |-> IF given("delay")
                THEN (IF parameters["delay"] = "1" THEN 1 ELSE 0)
                ELSE base.delay,
      otlp_headers |->
          IF given("otlp_header")
          THEN update(base.otlp_headers,
                      parse_key_value_pairs(parameters["otlp_header"]))
          ELSE base.otlp_headers,
      otlp_attributes |->
          IF given("otlp_attributes")
          THEN update(base.otlp_attributes,
                      parse_key_value_pairs(parameters["otlp_attributes"]))
          ELSE base.otlp_attributes,
      telemetry_attributes |->
          IF given("telemetry_attributes")
          THEN update(base.telemetry_attributes,
                      parse_key_value_pairs(
                          parameters["telemetry_attributes"]))
          ELSE base.telemetry_attributes,
      log_format |-> IF given("format")
                     THEN parameters["format"]
                     ELSE base.log_format ]

(* ScenarioExecutor._create_step_sender: float(parameters["delay"]) raises *)
(* ValueError when the value is not the text of a number                   *)
create_step_sender_raises(parameters) ==
    "delay" \in DOMAIN parameters /\ parameters["delay"] \notin {"0", "1"}

(* OTLPLogSender.parse_flog_line: json.loads succeeds on a JSON scalar,    *)
(* and .get on the scalar raises AttributeError, which only the handler of *)
(* _process_flog_output_with_filters catches.                              *)
parse_flog_line_raises(line) == line = <<"7">>

(* list.sort(key=start_time_seconds): a stable insertion sort *)
RECURSIVE InsertByStart(_, _)
InsertByStart(sorted, s) ==
    IF sorted = <<>>
    THEN <<s>>
    ELSE IF sorted[Len(sorted)].start_time_seconds <= s.start_time_seconds
         THEN Append(sorted, s)
         ELSE Append(InsertByStart(SubSeq(sorted, 1, Len(sorted) - 1), s),
                     sorted[Len(sorted)])

RECURSIVE SortByStart(_)
SortByStart(steps) ==
    IF steps = <<>>
    THEN <<>>
    ELSE InsertByStart(SortByStart(SubSeq(steps, 1, Len(steps) - 1)),
                       steps[Len(steps)])

(* ---------------------------- load_scenario ---------------------------- *)
(* An exception: its class, its message (without the values formatted into *)
(* it) and, where the message carries one, the 1-based step number.        *)
Exception(type, message, step) ==
    [type |-> type, message |-> message, step |-> step]

NoError == Exception("none", "", 0)

ValueError(message, step) == Exception("ValueError", message, step)

(* ScenarioParser._load_yaml_file *)
_load_yaml_file(document) ==
    CASE document.file = "missing" ->
             Exception("FileNotFoundError", "Scenario file not found", 0)
      [] document.file = "undecodable" ->
             ValueError("Invalid YAML in scenario file", 0)
      [] OTHER -> NoError

(* _validate_scenario_structure without its check of an empty list *)
_validate_scenario_structure_AllowsEmpty(scenario_data) ==
    IF scenario_data.type # "dict"
    THEN ValueError("Scenario file must contain a YAML object", 0)
    ELSE IF "name" \notin DOMAIN scenario_data.items
    THEN ValueError("Scenario must have a 'name' field", 0)
    ELSE IF \/ "steps" \notin DOMAIN scenario_data.items
            \/ scenario_data.items.steps.type # "list"
    THEN ValueError("Scenario must have a 'steps' array", 0)
    ELSE NoError

(* ScenarioParser._validate_scenario_structure *)
_validate_scenario_structure(scenario_data) ==
    IF scenario_data.type # "dict"
    THEN ValueError("Scenario file must contain a YAML object", 0)
    ELSE IF "name" \notin DOMAIN scenario_data.items
    THEN ValueError("Scenario must have a 'name' field", 0)
    ELSE IF \/ "steps" \notin DOMAIN scenario_data.items
            \/ scenario_data.items.steps.type # "list"
    THEN ValueError("Scenario must have a 'steps' array", 0)
    ELSE IF scenario_data.items.steps.elements = <<>>
    THEN ValueError("Scenario must have at least one step", 0)
    ELSE NoError

(* _parse_scenario_steps that reports the loop index as it is *)
_parse_scenario_steps_error_ZeroBased(steps_data) ==
    IF \E i \in 1..Len(steps_data) : ScenarioStep_raises(steps_data[i])
    THEN ValueError("Error parsing step",
             (CHOOSE i \in 1..Len(steps_data) :
                 /\ ScenarioStep_raises(steps_data[i])
                 /\ \A j \in 1..(i - 1) : ~ScenarioStep_raises(steps_data[j]))
             - 1)
    ELSE NoError

(* ScenarioParser._parse_scenario_steps: the steps are constructed in      *)
(* declared order; the first construction that raises ends the loop        *)
_parse_scenario_steps_error(steps_data) ==
    IF \E i \in 1..Len(steps_data) : ScenarioStep_raises(steps_data[i])
    THEN ValueError("Error parsing step",
             CHOOSE i \in 1..Len(steps_data) :
                 /\ ScenarioStep_raises(steps_data[i])
                 /\ \A j \in 1..(i - 1) : ~ScenarioStep_raises(steps_data[j]))
    ELSE NoError

_parse_scenario_steps(steps_data) ==
    [i \in 1..Len(steps_data) |-> ScenarioStep(steps_data[i])]

(* _validate_step_timing that only sorts *)
_validate_step_timing_OnlySorts(sorted) == NoError

(* ScenarioParser._validate_step_timing, after its sort: the first step of *)
(* the sorted list with a negative start_time is reported                  *)
_validate_step_timing(sorted) ==
    IF \E i \in 1..Len(sorted) : sorted[i].start_time_seconds < 0
    THEN ValueError("Step has negative start_time",
             CHOOSE i \in 1..Len(sorted) :
                 /\ sorted[i].start_time_seconds < 0
                 /\ \A j \in 1..(i - 1) : sorted[j].start_time_seconds >= 0)
    ELSE NoError

(* the maximum of the starts of the last iterations, the interval after    *)
(* the last iteration left out                                             *)
RECURSIVE max_last_start(_, _)
max_last_start(steps, n) ==
    IF n = 0
    THEN 0
    ELSE LET step == steps[n]
             last_iteration_start ==
                 step.start_time_seconds
                     + (step.iterations - 1) * step.interval_seconds
             before == max_last_start(steps, n - 1)
         IN  IF last_iteration_start > before
             THEN last_iteration_start
             ELSE before

(* ScenarioParser.get_total_scenario_duration *)
RECURSIVE max_end_time(_, _)
max_end_time(steps, n) ==
    IF n = 0
    THEN 0
    ELSE LET step == steps[n]
             last_iteration_start ==
                 step.start_time_seconds
                     + (step.iterations - 1) * step.interval_seconds
             step_end_time == last_iteration_start + step.interval_seconds
             before == max_end_time(steps, n - 1)
         IN  IF step_end_time > before THEN step_end_time ELSE before

get_total_scenario_duration(steps) ==
    IF steps = <<>> THEN 0 ELSE max_end_time(steps, Len(steps))

(* ScenarioParser.load_scenario: the exception it raises (NoError when it  *)
(* returns), the steps as constructed and the list it returns, which       *)
(* _validate_step_timing has sorted in place                               *)
load_scenario(document) ==
    IF _load_yaml_file(document) # NoError
    THEN [error |-> _load_yaml_file(document), parsed |-> <<>>, steps |-> <<>>]
    ELSE IF _validate_scenario_structure(document.data) # NoError
    THEN [error |-> _validate_scenario_structure(document.data),
          parsed |-> <<>>, steps |-> <<>>]
    ELSE LET steps_data == document.data.items.steps.elements IN
         IF _parse_scenario_steps_error(steps_data) # NoError
         THEN [error |-> _parse_scenario_steps_error(steps_data),
               parsed |-> <<>>, steps |-> <<>>]
         ELSE LET parsed == _parse_scenario_steps(steps_data)
                  sorted == SortByStart(parsed)
              IN  [error |-> _validate_step_timing(sorted),
                   parsed |-> parsed,
                   steps |-> IF _validate_step_timing(sorted) = NoError
                             THEN sorted
                             ELSE <<>>]

(* ------------------------------ documents ------------------------------ *)
File(data) == [file |-> "ok", data |-> data]

Rule(pattern, replacement) ==
    Dict([pattern |-> pattern, replacement |-> replacement])

(* "<n>s", for n < 10 *)
Seconds(n) == Str(<<DigitChars[n + 1], "s">>)

(* The steps of the documents that load: an immediate repeating step, a    *)
(* delayed step with a filter and a rewrite rule, a step with no           *)
(* iterations, a delayed step with a negative number of iterations, a step *)
(* whose `delay` parameter is not a number, a step with a filter and a     *)
(* rewrite rule whose template refers to a group; and a step with a        *)
(* negative start_time.                                                    *)
StepData ==
    { Dict([start_time |-> Seconds(0), interval |-> Seconds(MaxInterval),
            iterations |-> MaxIter,
            parameters |-> [service_name |-> "svc",
                            otlp_attributes |-> << <<"k", "=", "v">> >>]]),
      Dict([start_time |-> Seconds(MaxStart), interval |-> Seconds(0),
            filters |-> << <<"a">> >>,
            replacements |-> << Rule(<<"a">>, <<"b">>) >>]),
      Dict([interval |-> Seconds(0), iterations |-> 0]),
      Dict([start_time |-> Seconds(MaxStart), interval |-> Seconds(0),
            iterations |-> -1]),
      Dict([start_time |-> Number(0), interval |-> Seconds(0),
            iterations |-> MaxIter, parameters |-> [delay |-> "x"]]),
      Dict([interval |-> Seconds(0),
            filters |-> << <<"a">> >>,
            replacements |-> << Rule(<<"a">>, <<"\\", "1">>) >>]),
      Dict([start_time |-> Number(-1), interval |-> Seconds(0)]) }

(* Step data whose construction raises: a step that is no mapping, a       *)
(* signed duration, an unknown unit, a filter that does not compile, a     *)
(* rule that is no mapping, a rule without `replacement`, a rule whose     *)
(* pattern does not compile.                                               *)
BadStepData ==
    { Str(<<"a">>),
      Dict([start_time |-> Str(<<"-", "1", "s">>), interval |-> Seconds(0)]),
      Dict([start_time |-> Seconds(0), interval |-> Str(<<"1", "x">>)]),
      Dict([interval |-> Seconds(0), filters |-> << <<"a">>, <<"(">> >>]),
      Dict([interval |-> Seconds(0), replacements |-> << Str(<<"a">>) >>]),
      Dict([interval |-> Seconds(0),
            replacements |-> << Dict([pattern |-> <<"a">>]) >>]),
      Dict([interval |-> Seconds(0),
            replacements |-> << Rule(<<"(">>, <<"b">>) >>]) }

Named(steps) == File(Dict([name |-> Str(<<"n">>), steps |-> steps]))

StepLists(data) == UNION { [1..n -> data] : n \in 1..MaxSteps }

(* The scenario files: a missing file, a file that is not YAML, decoded    *)
(* values of the wrong structure, and documents with a name and a          *)
(* non-empty list of steps.                                                *)
Documents ==
    { [file |-> "missing", data |-> None],
      [file |-> "undecodable", data |-> None],
      File(None),
      File(List(<<>>)),
      File(Dict([steps |-> List(<< Dict([interval |-> Seconds(0)]) >>)])),
      File(Dict([description |-> Str(<<"d">>)])),
      File(Dict([name |-> Str(<<"n">>)])),
      Named(None),
      Named(Str(<<"a">>)),
      Named(Dict([interval |-> Seconds(0)])),
      Named(List(<<>>)) }
    \cup { Named(List(l)) : l \in StepLists(StepData) }
    \cup { Named(List(l)) :
             l \in { m \in StepLists(BadStepData
                                     \cup {Dict([interval |-> Seconds(0)]),
                                           Dict([start_time |-> Number(-1),
                                                 interval |-> Seconds(0)])}) :
                        \E i \in 1..Len(m) : m[i] \in BadStepData } }

(* no call of a pure function has been made *)
NoCall == [function |-> "none"]

(* ------------------------------ state ---------------------------------- *)
VARIABLES
    document,       \* the scenario file
    otlp_sender,    \* self.otlp_sender, the sender the executor was given
    call,           \* a call of one of the pure functions, with its result
    error,          \* the exception load_scenario raised (NoError if none)
    declared,       \* observer: the steps as constructed, in declared order
    steps,          \* scenario["steps"], the list load_scenario returns
    mainpc,         \* position of the main thread
    mi,             \* loop index of the main thread (schedule / join loops)
    success,        \* local `success` of execute_scenario
    result,         \* value returned by execute_scenario ("none" before)
    stop_event,     \* self.stop_event
    step_threads,   \* number of threads in self.step_threads
    grace,          \* time left of the running join(timeout=2)
    interrupted,    \* observer: a KeyboardInterrupt reached execute_scenario
    pc,             \* position of each worker thread
    iteration,      \* loop variable `iteration` of each worker (0-based)
    rem,            \* time left of the worker's running time.sleep
    step_sender,    \* local `step_sender` of _execute_step_iteration
    proc,           \* generator process of the current iteration
    returncode,     \* its exit status, once exited
    produced,       \* observer: the lines read from it so far
    line_count, sent_count, filtered_count,
    delivered,      \* observer: the lines handed to send_log in the current
                    \* iteration, each with the outcome of its session.post
    alive,          \* iterations of the step whose generator has not exited
    sinceLaunch,    \* observer: time since thread.start(), capped
    sinceEnd,       \* observer: time since the last iteration ended, capped
    anyFailed,      \* observer: some iteration was reported as failed
    midAtStop,      \* observer: the worker was in an iteration, with every
                    \* line still to come, when the stop flag was set
    reported        \* observer: what the iteration that has just ended
                    \* returned to _execute_step_iteration

mainVars == <<document, otlp_sender, call, error, declared, steps, mainpc, mi, success, result,
              stop_event,
              step_threads, grace, interrupted>>
workerVars == <<pc, iteration, rem>>
procVars == <<step_sender, proc, returncode, produced, alive>>
countVars == <<line_count, sent_count, filtered_count, delivered>>
obsVars == <<sinceLaunch, sinceEnd, anyFailed, midAtStop, reported>>
vars == <<mainVars, workerVars, procVars, countVars, obsVars>>

Workers == 1..MaxSteps

(* the value execute_scenario returns, as `result` holds it *)
Returned(b) == IF b THEN "True" ELSE "False"

(* the lines a generator process writes at most *)
LineBound == IF Len(steps) = 1 THEN MaxLines ELSE MaxLinesConcurrent

(* the deliveries of `sent` that session.post did not answer with 200 *)
Failures(sent) == {i \in 1..Len(sent) : sent[i].response # "200"}

(* the tuple _process_flog_output_with_filters returns, with the state of  *)
(* the generator process, the number of lines handed to send_log and the   *)
(* number of failed deliveries when it returned                            *)
Report(success_, log_count, filtered, generator, rc, sent) ==
    [ made |-> TRUE, success |-> success_, log_count |-> log_count,
      filtered_count |-> filtered, generator |-> generator,
      returncode |-> rc, handed |-> Len(sent),
      failures |-> Cardinality(Failures(sent)) ]

NoReport ==
    [ made |-> FALSE, success |-> FALSE, log_count |-> 0,
      filtered_count |-> 0, generator |-> "none", returncode |-> 0,
      handed |-> 0, failures |-> 0 ]

(* send_log with a delivery that puts the newest line first *)
send_log_prepends(sent, line, outcome) ==
    <<[line |-> line, response |-> outcome]>> \o sent

(* sender.send_log(otlp_payload): the line is handed to the delivery, in   *)
(* the order of the calls                                                  *)
send_log(sent, line, outcome) ==
    Append(sent, [line |-> line, response |-> outcome])

(* the outcomes of session.post: the status code of the response, or a    *)
(* requests.exceptions.RequestException                                    *)
Responses == {"200", "500", "RequestException"}

Init ==
    /\ document \in Documents
    /\ otlp_sender = OTLPLogSender
    /\ call = NoCall
    /\ error = NoError
    /\ declared = <<>>
    /\ steps = <<>>
    /\ mainpc = "load"
    /\ mi = 0
    /\ success = TRUE
    /\ result = "none"
    /\ stop_event = FALSE
    /\ step_threads = 0
    /\ grace = 0
    /\ interrupted = FALSE
    /\ pc = [k \in Workers |-> "unstarted"]
    /\ iteration = [k \in Workers |-> 0]
    /\ rem = [k \in Workers |-> 0]
    /\ step_sender = [k \in Workers |-> NoSender]
    /\ proc = [k \in Workers |-> "none"]
    /\ returncode = [k \in Workers |-> 0]
    /\ produced = [k \in Workers |-> <<>>]
    /\ line_count = [k \in Workers |-> 0]
    /\ sent_count = [k \in Workers |-> 0]
    /\ filtered_count = [k \in Workers |-> 0]
    /\ delivered = [k \in Workers |-> <<>>]
    /\ alive = [k \in Workers |-> {}]
    /\ sinceLaunch = [k \in Workers |-> 0]
    /\ sinceEnd = [k \in Workers |-> 0]
    /\ anyFailed = FALSE
    /\ midAtStop = [k \in Workers |-> FALSE]
    /\ reported = [k \in Workers |-> NoReport]


(* --------------------------- main thread ------------------------------- *)
(* LoadScenario with a validation that leaves the list in declared order *)
LoadScenario_NoSort ==
    /\ mainpc = "load"
    /\ LET loaded == load_scenario(document) IN
         /\ error' = loaded.error
         /\ declared' = loaded.parsed
         /\ steps' = IF loaded.error = NoError THEN loaded.parsed ELSE <<>>
         /\ mainpc' = IF loaded.error = NoError THEN "loaded" ELSE "load_error"
    /\ UNCHANGED <<document, otlp_sender, call, mi, success, result, stop_event, step_threads,
                   grace, interrupted>>
    /\ UNCHANGED <<workerVars, procVars, countVars, obsVars>>

(* LoadScenario with a caller that logs the exception of                   *)
(* _validate_step_timing and goes on with the steps                        *)
LoadScenario_GoesOn ==
    /\ mainpc = "load"
    /\ LET loaded == load_scenario(document) IN
         /\ error' = loaded.error
         /\ declared' = loaded.parsed
         /\ steps' = SortByStart(loaded.parsed)
         /\ mainpc' = IF loaded.parsed # <<>> THEN "loaded" ELSE "load_error"
    /\ UNCHANGED <<document, otlp_sender, call, mi, success, result, stop_event, step_threads,
                   grace, interrupted>>
    /\ UNCHANGED <<workerVars, procVars, countVars, obsVars>>

(* main: scenario_parser.load_scenario(args.scenario).  When it raises,    *)
(* main logs the exception and exits with status 1: execute_scenario is    *)
(* not called.  When it returns, scenario["steps"] is the list that        *)
(* _validate_step_timing has sorted in place.                              *)
(* The parser and the executor are constructed as scenario.py defines      *)
(* them.                                                                   *)
LoadScenario ==
    /\ mainpc = "load"
    /\ LET loaded == load_scenario(document) IN
         /\ error' = loaded.error
         /\ declared' = loaded.parsed
         /\ steps' = loaded.steps
         /\ mainpc' = IF loaded.error = NoError THEN "loaded" ELSE "load_error"
    /\ UNCHANGED <<document, otlp_sender, call, mi, success, result, stop_event, step_threads,
                   grace, interrupted>>
    /\ UNCHANGED <<workerVars, procVars, countVars, obsVars>>

(* execute_scenario, up to the scheduling loop *)
ExecuteScenario ==
    /\ mainpc = "loaded"
    /\ mainpc' = "schedule"
    /\ mi' = 1
    /\ success' = TRUE
    /\ UNCHANGED <<document, otlp_sender, call, error, declared, steps, result, stop_event,
                   step_threads, grace, interrupted>>
    /\ UNCHANGED <<workerVars, procVars, countVars, obsVars>>

(* one turn of `for i, step in enumerate(steps, 1): _schedule_step(...)`:  *)
(* the thread of step number i is created, appended and started            *)
ScheduleStep ==
    /\ mainpc = "schedule"
    /\ mi <= Len(steps)
    /\ pc' = [pc EXCEPT ![mi] = "start"]
    /\ step_threads' = step_threads + 1
    /\ sinceLaunch' = [sinceLaunch EXCEPT ![mi] = 0]
    /\ IF mi = Len(steps)
       THEN mainpc' = "join" /\ mi' = 1
       ELSE mainpc' = "schedule" /\ mi' = mi + 1
    /\ UNCHANGED <<document, otlp_sender, call, error, declared, steps, success, result,
                   stop_event, grace, interrupted>>
    /\ UNCHANGED <<iteration, rem, procVars, countVars, sinceEnd, anyFailed,
                   midAtStop, reported>>

(* JoinThread with a join that does not block until the thread has ended *)
JoinThread_NoWait ==
    /\ mainpc = "join"
    /\ IF mi = step_threads
       THEN mainpc' = "returned" /\ mi' = mi /\ result' = Returned(success)
       ELSE mainpc' = "join" /\ mi' = mi + 1 /\ UNCHANGED result
    /\ UNCHANGED <<document, otlp_sender, call, error, declared, steps, success, stop_event,
                   step_threads, grace, interrupted>>
    /\ UNCHANGED <<workerVars, procVars, countVars, obsVars>>

(* one turn of `for thread in self.step_threads: thread.join()`; after the *)
(* last one the final report is logged and `return success` is reached     *)
JoinThread ==
    /\ mainpc = "join"
    /\ pc[mi] = "done"
    /\ IF mi = step_threads
       THEN mainpc' = "returned" /\ mi' = mi /\ result' = Returned(success)
       ELSE mainpc' = "join" /\ mi' = mi + 1 /\ UNCHANGED result
    /\ UNCHANGED <<document, otlp_sender, call, error, declared, steps, success, stop_event,
                   step_threads, grace, interrupted>>
    /\ UNCHANGED <<workerVars, procVars, countVars, obsVars>>

(* Interrupt with a handler that leaves `success` as it is *)
Interrupt_KeepSuccess ==
    /\ mainpc \in {"schedule", "join", "grace"}
    /\ interrupted' = TRUE
    /\ IF mainpc = "join"
       THEN /\ stop_event' = TRUE
            /\ mainpc' = "grace"
            /\ mi' = 1
            /\ grace' = GraceTimeout
            /\ midAtStop' = [k \in Workers |->
                   pc[k] = "reading" /\ proc[k] = "running"
                                     /\ produced[k] = <<>>]
            /\ UNCHANGED success
       ELSE /\ mainpc' = "raised"
            /\ UNCHANGED <<stop_event, success, mi, grace, midAtStop>>
    /\ UNCHANGED <<document, otlp_sender, call, error, declared, steps, result, step_threads>>
    /\ UNCHANGED <<workerVars, procVars, countVars, sinceLaunch, sinceEnd,
                   anyFailed, reported>>

(* KeyboardInterrupt in the main thread.  While the threads are joined it  *)
(* is caught: the stop flag is set, success becomes False and the grace    *)
(* joins begin.  Anywhere else in execute_scenario no handler catches it   *)
(* (`except Exception` does not) and it leaves execute_scenario.           *)
Interrupt ==
    /\ mainpc \in {"schedule", "join", "grace"}
    /\ interrupted' = TRUE
    /\ IF mainpc = "join"
       THEN /\ stop_event' = TRUE
            /\ success' = FALSE
            /\ mainpc' = "grace"
            /\ mi' = 1
            /\ grace' = GraceTimeout
            /\ midAtStop' = [k \in Workers |->
                   pc[k] = "reading" /\ proc[k] = "running"
                                     /\ produced[k] = <<>>]
       ELSE /\ mainpc' = "raised"
            /\ UNCHANGED <<stop_event, success, mi, grace, midAtStop>>
    /\ UNCHANGED <<document, otlp_sender, call, error, declared, steps, result, step_threads>>
    /\ UNCHANGED <<workerVars, procVars, countVars, sinceLaunch, sinceEnd,
                   anyFailed, reported>>

(* GraceJoin with a join that has no timeout *)
GraceJoin_NoTimeout ==
    /\ mainpc = "grace"
    /\ pc[mi] = "done"
    /\ IF mi = step_threads
       THEN /\ mainpc' = "returned"
            /\ result' = Returned(success)
            /\ mi' = mi
            /\ grace' = 0
       ELSE /\ mainpc' = "grace"
            /\ mi' = mi + 1
            /\ grace' = GraceTimeout
            /\ UNCHANGED result
    /\ UNCHANGED <<document, otlp_sender, call, error, declared, steps, success, stop_event,
                   step_threads, interrupted>>
    /\ UNCHANGED <<workerVars, procVars, countVars, obsVars>>

(* one turn of `for thread in self.step_threads: thread.join(timeout=2)`:  *)
(* the join returns when the thread has ended or the timeout has run out;  *)
(* after the last one the final report is logged and `return success` is   *)
(* reached                                                                 *)
GraceJoin ==
    /\ mainpc = "grace"
    /\ pc[mi] = "done" \/ grace = 0
    /\ IF mi = step_threads
       THEN /\ mainpc' = "returned"
            /\ result' = Returned(success)
            /\ mi' = mi
            /\ grace' = 0
       ELSE /\ mainpc' = "grace"
            /\ mi' = mi + 1
            /\ grace' = GraceTimeout
            /\ UNCHANGED result
    /\ UNCHANGED <<document, otlp_sender, call, error, declared, steps, success, stop_event,
                   step_threads, interrupted>>
    /\ UNCHANGED <<workerVars, procVars, countVars, obsVars>>


(* --------------------------- step_worker ------------------------------- *)
(* The worker threads are daemon threads of the process: they, the         *)
(* generator processes' effects and the clock are followed while           *)
(* execute_scenario runs, up to its return or the exception leaving it.    *)
Live == mainpc \in {"schedule", "join", "grace"}

(* the step a worker runs: _schedule_step binds step number k to steps[k]  *)
StepOf(k) == steps[k]

(* WorkerStart without the initial sleep *)
WorkerStart_NoSleep(k) ==
    /\ Live
    /\ pc[k] = "start"
    /\ pc' = [pc EXCEPT ![k] = "check_stop"]
    /\ UNCHANGED <<mainVars, iteration, rem, procVars, countVars, obsVars>>

(* step_worker begins: time_to_wait = step.start_time_seconds, and the     *)
(* sleep is entered only when it is positive                               *)
WorkerStart(k) ==
    /\ Live
    /\ pc[k] = "start"
    /\ IF StepOf(k).start_time_seconds > 0
       THEN /\ pc' = [pc EXCEPT ![k] = "offset_sleep"]
            /\ rem' = [rem EXCEPT ![k] = StepOf(k).start_time_seconds]
       ELSE /\ pc' = [pc EXCEPT ![k] = "check_stop"]
            /\ UNCHANGED rem
    /\ UNCHANGED <<mainVars, iteration, procVars, countVars, obsVars>>

(* time.sleep(time_to_wait) returns *)
OffsetWake(k) ==
    /\ Live
    /\ pc[k] = "offset_sleep"
    /\ rem[k] = 0
    /\ pc' = [pc EXCEPT ![k] = "check_stop"]
    /\ UNCHANGED <<mainVars, iteration, rem, procVars, countVars, obsVars>>

(* the thread ends: its observers are cleared *)
WorkerEnds(k) ==
    /\ pc' = [pc EXCEPT ![k] = "done"]
    /\ sinceLaunch' = [sinceLaunch EXCEPT ![k] = 0]
    /\ sinceEnd' = [sinceEnd EXCEPT ![k] = 0]
    /\ reported' = [reported EXCEPT ![k] = NoReport]
    /\ UNCHANGED <<mainVars, iteration, rem, procVars, countVars, anyFailed,
                   midAtStop>>

(* `if self.stop_event.is_set(): return` after the initial wait *)
CheckStop(k) ==
    /\ Live
    /\ pc[k] = "check_stop"
    /\ IF stop_event
       THEN WorkerEnds(k)
       ELSE /\ pc' = [pc EXCEPT ![k] = "loop"]
            /\ UNCHANGED <<mainVars, iteration, rem, procVars, countVars,
                           obsVars>>

(* LoopTop without the interval sleep *)
LoopTop_NoInterval(k) ==
    /\ Live
    /\ pc[k] = "loop"
    /\ IF iteration[k] >= StepOf(k).iterations \/ stop_event
       THEN WorkerEnds(k)
       ELSE /\ pc' = [pc EXCEPT ![k] = "iterate"]
            /\ reported' = [reported EXCEPT ![k] = NoReport]
            /\ UNCHANGED <<mainVars, iteration, rem, procVars, countVars,
                           sinceLaunch, sinceEnd, anyFailed, midAtStop>>

(* LoopTop without the test of the stop flag *)
LoopTop_IgnoreStop(k) ==
    /\ Live
    /\ pc[k] = "loop"
    /\ IF iteration[k] >= StepOf(k).iterations
       THEN WorkerEnds(k)
       ELSE /\ IF iteration[k] > 0
               THEN /\ pc' = [pc EXCEPT ![k] = "interval_sleep"]
                    /\ rem' = [rem EXCEPT ![k] = StepOf(k).interval_seconds]
               ELSE /\ pc' = [pc EXCEPT ![k] = "iterate"]
                    /\ UNCHANGED rem
            /\ reported' = [reported EXCEPT ![k] = NoReport]
            /\ UNCHANGED <<mainVars, iteration, procVars, countVars,
                           sinceLaunch, sinceEnd, anyFailed, midAtStop>>

(* LoopTop of a loop that tests its bound after the first iteration only *)
LoopTop_AtLeastOnce(k) ==
    /\ Live
    /\ pc[k] = "loop"
    /\ IF (iteration[k] > 0 /\ iteration[k] >= StepOf(k).iterations)
          \/ stop_event
       THEN WorkerEnds(k)
       ELSE /\ IF iteration[k] > 0
               THEN /\ pc' = [pc EXCEPT ![k] = "interval_sleep"]
                    /\ rem' = [rem EXCEPT ![k] = StepOf(k).interval_seconds]
               ELSE /\ pc' = [pc EXCEPT ![k] = "iterate"]
                    /\ UNCHANGED rem
            /\ reported' = [reported EXCEPT ![k] = NoReport]
            /\ UNCHANGED <<mainVars, iteration, procVars, countVars,
                           sinceLaunch, sinceEnd, anyFailed, midAtStop>>

(* top of `for iteration in range(step.iterations)`: the range is          *)
(* exhausted, or the stop flag breaks the loop, or the interval sleep is   *)
(* entered (iteration > 0), or the iteration is run at once                *)
LoopTop(k) ==
    /\ Live
    /\ pc[k] = "loop"
    /\ IF iteration[k] >= StepOf(k).iterations \/ stop_event
       THEN WorkerEnds(k)
       ELSE /\ IF iteration[k] > 0
               THEN /\ pc' = [pc EXCEPT ![k] = "interval_sleep"]
                    /\ rem' = [rem EXCEPT ![k] = StepOf(k).interval_seconds]
               ELSE /\ pc' = [pc EXCEPT ![k] = "iterate"]
                    /\ UNCHANGED rem
            /\ reported' = [reported EXCEPT ![k] = NoReport]
            /\ UNCHANGED <<mainVars, iteration, procVars, countVars,
                           sinceLaunch, sinceEnd, anyFailed, midAtStop>>

(* IntervalWake of a worker that tests the stop flag after the sleep too *)
IntervalWake_ChecksStop(k) ==
    /\ Live
    /\ pc[k] = "interval_sleep"
    /\ rem[k] = 0
    /\ IF stop_event
       THEN WorkerEnds(k)
       ELSE /\ pc' = [pc EXCEPT ![k] = "iterate"]
            /\ UNCHANGED <<mainVars, iteration, rem, procVars, countVars,
                           obsVars>>

(* time.sleep(step.interval_seconds) returns *)
IntervalWake(k) ==
    /\ Live
    /\ pc[k] = "interval_sleep"
    /\ rem[k] = 0
    /\ pc' = [pc EXCEPT ![k] = "iterate"]
    /\ UNCHANGED <<mainVars, iteration, rem, procVars, countVars, obsVars>>

(* EndIteration with a failure that also sets the stop flag *)
EndIteration_StopsAll(k, ok, log_count, filtered) ==
    /\ pc' = [pc EXCEPT ![k] = "loop"]
    /\ iteration' = [iteration EXCEPT ![k] = iteration[k] + 1]
    /\ step_sender' = [step_sender EXCEPT ![k] = NoSender]
    /\ proc' = [proc EXCEPT ![k] = "none"]
    /\ returncode' = [returncode EXCEPT ![k] = 0]
    /\ produced' = [produced EXCEPT ![k] = <<>>]
    /\ line_count' = [line_count EXCEPT ![k] = 0]
    /\ sent_count' = [sent_count EXCEPT ![k] = 0]
    /\ filtered_count' = [filtered_count EXCEPT ![k] = 0]
    /\ delivered' = [delivered EXCEPT ![k] = <<>>]
    /\ sinceEnd' = [sinceEnd EXCEPT ![k] = 0]
    /\ anyFailed' = (anyFailed \/ ~ok)
    /\ midAtStop' = [midAtStop EXCEPT ![k] = FALSE]
    /\ reported' = [reported EXCEPT ![k] =
           Report(ok, log_count, filtered, proc[k], returncode[k],
                  delivered[k])]
    /\ stop_event' = (stop_event \/ ~ok)
    /\ UNCHANGED <<document, otlp_sender, call, error, declared, steps, mainpc, mi, success,
                   result, step_threads, grace, interrupted>>
    /\ UNCHANGED <<rem, alive, sinceLaunch>>

(* EndIteration of a loop that runs a failed iteration again *)
EndIteration_RetriesFailed(k, ok, log_count, filtered) ==
    /\ pc' = [pc EXCEPT ![k] = "loop"]
    /\ iteration' = [iteration EXCEPT ![k] =
                        IF ok THEN iteration[k] + 1 ELSE iteration[k]]
    /\ step_sender' = [step_sender EXCEPT ![k] = NoSender]
    /\ proc' = [proc EXCEPT ![k] = "none"]
    /\ returncode' = [returncode EXCEPT ![k] = 0]
    /\ produced' = [produced EXCEPT ![k] = <<>>]
    /\ line_count' = [line_count EXCEPT ![k] = 0]
    /\ sent_count' = [sent_count EXCEPT ![k] = 0]
    /\ filtered_count' = [filtered_count EXCEPT ![k] = 0]
    /\ delivered' = [delivered EXCEPT ![k] = <<>>]
    /\ sinceEnd' = [sinceEnd EXCEPT ![k] = 0]
    /\ anyFailed' = (anyFailed \/ ~ok)
    /\ midAtStop' = [midAtStop EXCEPT ![k] = FALSE]
    /\ reported' = [reported EXCEPT ![k] =
           Report(ok, log_count, filtered, proc[k], returncode[k],
                  delivered[k])]
    /\ UNCHANGED <<mainVars, rem, alive, sinceLaunch>>

(* EndIteration of a loop whose variable goes up by two *)
EndIteration_SkipsOne(k, ok, log_count, filtered) ==
    /\ pc' = [pc EXCEPT ![k] = "loop"]
    /\ iteration' = [iteration EXCEPT ![k] = iteration[k] + 2]
    /\ step_sender' = [step_sender EXCEPT ![k] = NoSender]
    /\ proc' = [proc EXCEPT ![k] = "none"]
    /\ returncode' = [returncode EXCEPT ![k] = 0]
    /\ produced' = [produced EXCEPT ![k] = <<>>]
    /\ line_count' = [line_count EXCEPT ![k] = 0]
    /\ sent_count' = [sent_count EXCEPT ![k] = 0]
    /\ filtered_count' = [filtered_count EXCEPT ![k] = 0]
    /\ delivered' = [delivered EXCEPT ![k] = <<>>]
    /\ sinceEnd' = [sinceEnd EXCEPT ![k] = 0]
    /\ anyFailed' = (anyFailed \/ ~ok)
    /\ midAtStop' = [midAtStop EXCEPT ![k] = FALSE]
    /\ reported' = [reported EXCEPT ![k] =
           Report(ok, log_count, filtered, proc[k], returncode[k],
                  delivered[k])]
    /\ UNCHANGED <<mainVars, rem, alive, sinceLaunch>>

(* _process_flog_output_with_filters returns (success, sent, filtered) to  *)
(* _execute_step_iteration, which logs the outcome and returns to the      *)
(* loop: the locals of the call are gone and nothing of the outcome is     *)
(* kept by the executor.  A process that was started and has not exited    *)
(* stays alive.                                                            *)
EndIteration(k, ok, log_count, filtered) ==
    /\ pc' = [pc EXCEPT ![k] = "loop"]
    /\ iteration' = [iteration EXCEPT ![k] = iteration[k] + 1]
    /\ step_sender' = [step_sender EXCEPT ![k] = NoSender]
    /\ proc' = [proc EXCEPT ![k] = "none"]
    /\ returncode' = [returncode EXCEPT ![k] = 0]
    /\ produced' = [produced EXCEPT ![k] = <<>>]
    /\ line_count' = [line_count EXCEPT ![k] = 0]
    /\ sent_count' = [sent_count EXCEPT ![k] = 0]
    /\ filtered_count' = [filtered_count EXCEPT ![k] = 0]
    /\ delivered' = [delivered EXCEPT ![k] = <<>>]
    /\ sinceEnd' = [sinceEnd EXCEPT ![k] = 0]
    /\ anyFailed' = (anyFailed \/ ~ok)
    /\ midAtStop' = [midAtStop EXCEPT ![k] = FALSE]
    /\ reported' = [reported EXCEPT ![k] =
           Report(ok, log_count, filtered, proc[k], returncode[k],
                  delivered[k])]
    /\ UNCHANGED <<mainVars, rem, alive, sinceLaunch>>

(* StartIteration with a _create_step_sender that applies the parameters   *)
(* of the step to the sender of the executor                               *)
StartIteration_OverridesBase(k) ==
    /\ Live
    /\ pc[k] = "iterate"
    /\ ~create_step_sender_raises(StepOf(k).parameters)
    /\ pc' = [pc EXCEPT ![k] = "reading"]
    /\ otlp_sender' = _create_step_sender(otlp_sender, StepOf(k).parameters)
    /\ step_sender' = [step_sender EXCEPT ![k] = otlp_sender']
    /\ proc' = [proc EXCEPT ![k] = "running"]
    /\ alive' = [alive EXCEPT ![k] = alive[k] \cup {iteration[k] + 1}]
    /\ sinceEnd' = [sinceEnd EXCEPT ![k] = 0]
    /\ UNCHANGED <<document, call, error, declared, steps, mainpc, mi,
                   success, result, stop_event, step_threads, grace,
                   interrupted, iteration, rem, returncode, produced,
                   countVars, sinceLaunch, anyFailed, midAtStop, reported>>

(* StartIteration of workers that run their generators one at a time *)
StartIteration_Exclusive(k) ==
    /\ Live
    /\ pc[k] = "iterate"
    /\ \A j \in Workers \ {k} : proc[j] # "running"
    /\ IF create_step_sender_raises(StepOf(k).parameters)
       THEN
          /\ pc' = [pc EXCEPT ![k] = "done"]
          /\ sinceLaunch' = [sinceLaunch EXCEPT ![k] = 0]
          /\ sinceEnd' = [sinceEnd EXCEPT ![k] = 0]
          /\ anyFailed' = TRUE
          /\ UNCHANGED <<mainVars, iteration, rem, procVars, countVars,
                         midAtStop, reported>>
       ELSE
       \/ EndIteration(k, FALSE, 0, 0)
       \/ /\ pc' = [pc EXCEPT ![k] = "reading"]
          /\ step_sender' = [step_sender EXCEPT ![k] =
                 _create_step_sender(otlp_sender, StepOf(k).parameters)]
          /\ proc' = [proc EXCEPT ![k] = "running"]
          /\ alive' = [alive EXCEPT ![k] = alive[k] \cup {iteration[k] + 1}]
          /\ sinceEnd' = [sinceEnd EXCEPT ![k] = 0]
          /\ UNCHANGED <<mainVars, iteration, rem, returncode, produced,
                         countVars, sinceLaunch, anyFailed, midAtStop,
                         reported>>

(* _execute_step_iteration up to subprocess.Popen: _create_step_sender     *)
(* raises, which ends the thread through the handler of step_worker; or    *)
(* flog is not found (FileNotFoundError: the iteration fails with counts   *)
(* 0, 0); or the process runs and the counters start at 0                  *)
StartIteration(k) ==
    /\ Live
    /\ pc[k] = "iterate"
    /\ IF create_step_sender_raises(StepOf(k).parameters)
       THEN
          /\ pc' = [pc EXCEPT ![k] = "done"]
          /\ sinceLaunch' = [sinceLaunch EXCEPT ![k] = 0]
          /\ sinceEnd' = [sinceEnd EXCEPT ![k] = 0]
          /\ anyFailed' = TRUE
          /\ UNCHANGED <<mainVars, iteration, rem, procVars, countVars,
                         midAtStop, reported>>
       ELSE
       \/ EndIteration(k, FALSE, 0, 0)
       \/ /\ pc' = [pc EXCEPT ![k] = "reading"]
          /\ step_sender' = [step_sender EXCEPT ![k] =
                 _create_step_sender(otlp_sender, StepOf(k).parameters)]
          /\ proc' = [proc EXCEPT ![k] = "running"]
          /\ alive' = [alive EXCEPT ![k] = alive[k] \cup {iteration[k] + 1}]
          /\ sinceEnd' = [sinceEnd EXCEPT ![k] = 0]
          /\ UNCHANGED <<mainVars, iteration, rem, returncode, produced,
                         countVars, sinceLaunch, anyFailed, midAtStop,
                         reported>>

(* one turn of `for line in iter(process.stdout.readline, "")` with a line *)
(* of the generator, up to the next turn or to session.post: an empty line *)
(* is skipped; a line that fails the filters is counted as filtered; a     *)
(* line that passes is rewritten, parsed, encoded and handed to send_log,  *)
(* which calls session.post; an exception while the line is processed      *)
(* ends the iteration through `except Exception: return False, 0, 0`.      *)
ReadLine(k, line, outcome) ==
    /\ Live
    /\ pc[k] = "reading"
    /\ proc[k] = "running"
    /\ Len(produced[k]) < LineBound
    /\ \E draws \in RuleDraws(StepOf(k)) :
       LET stripped == strip(line)
           passes == stripped # <<>> /\ matches_filters(StepOf(k), stripped)
           processed_line == apply_replacements(StepOf(k), stripped, draws)
       IN
       IF passes /\ (\/ apply_replacements_raises(StepOf(k))
                     \/ parse_flog_line_raises(processed_line))
       THEN EndIteration(k, FALSE, 0, 0)
       ELSE /\ produced' = [produced EXCEPT ![k] = Append(produced[k], line)]
            /\ IF stripped = <<>>
               THEN UNCHANGED <<pc, countVars>>
               ELSE /\ line_count' =
                         [line_count EXCEPT ![k] = line_count[k] + 1]
                    /\ IF passes
                       THEN /\ delivered' = [delivered EXCEPT ![k] =
                                   send_log(delivered[k], processed_line,
                                            outcome)]
                            /\ pc' = [pc EXCEPT ![k] = "post"]
                            /\ UNCHANGED <<sent_count, filtered_count>>
                       ELSE /\ filtered_count' =
                                 [filtered_count EXCEPT ![k] =
                                     filtered_count[k] + 1]
                            /\ UNCHANGED <<pc, sent_count, delivered>>
            /\ UNCHANGED <<mainVars, iteration, rem, step_sender, proc, returncode, alive,
                           obsVars>>

(* SendLog with a send_log that lets the failure of a delivery out *)
SendLog_Raises(k) ==
    /\ Live
    /\ pc[k] = "post"
    /\ IF delivered[k][Len(delivered[k])].response = "200"
       THEN /\ pc' = [pc EXCEPT ![k] = "reading"]
            /\ sent_count' = [sent_count EXCEPT ![k] = sent_count[k] + 1]
            /\ UNCHANGED <<mainVars, iteration, rem, procVars, line_count,
                           filtered_count, delivered, obsVars>>
       ELSE EndIteration(k, FALSE, 0, 0)

(* SendLog that does not count the line as sent *)
SendLog_NoCount(k) ==
    /\ Live
    /\ pc[k] = "post"
    /\ pc' = [pc EXCEPT ![k] = "reading"]
    /\ UNCHANGED <<mainVars, iteration, rem, procVars, countVars, obsVars>>

(* session.post returns or raises: send_log logs a status other than 200   *)
(* and a RequestException, and returns; the line is counted as sent;       *)
(* time.sleep(sender.delay) lets time pass                                 *)
SendLog(k) ==
    /\ Live
    /\ pc[k] = "post"
    /\ pc' = [pc EXCEPT ![k] = "reading"]
    /\ sent_count' = [sent_count EXCEPT ![k] = sent_count[k] + 1]
    /\ UNCHANGED <<mainVars, iteration, rem, procVars, line_count,
                   filtered_count, delivered, obsVars>>

(* ReadEOF with a read loop that also ends when the stop flag is set *)
ReadEOF_OrStop(k) ==
    /\ Live
    /\ pc[k] = "reading"
    /\ proc[k] \in {"eof", "exited"} \/ stop_event
    /\ pc' = [pc EXCEPT ![k] = "wait"]
    /\ UNCHANGED <<mainVars, iteration, rem, procVars, countVars, obsVars>>

(* readline returns "": the generator has closed its output *)
ReadEOF(k) ==
    /\ Live
    /\ pc[k] = "reading"
    /\ proc[k] \in {"eof", "exited"}
    /\ pc' = [pc EXCEPT ![k] = "wait"]
    /\ UNCHANGED <<mainVars, iteration, rem, procVars, countVars, obsVars>>

(* process.wait() returns once the process has exited; a non-zero          *)
(* returncode makes the iteration fail                                     *)
WaitProcess(k) ==
    /\ Live
    /\ pc[k] = "wait"
    /\ proc[k] = "exited"
    /\ EndIteration(k, returncode[k] = 0, sent_count[k], filtered_count[k])

(* ---------------------------- environment ------------------------------ *)
(* the generator closes its standard output *)
GenClose(k) ==
    /\ Live
    /\ proc[k] = "running"
    /\ proc' = [proc EXCEPT ![k] = "eof"]
    /\ UNCHANGED <<mainVars, workerVars, step_sender, returncode, produced, alive, countVars,
                   obsVars>>

(* the generator exits with status rc *)
GenExit(k, rc) ==
    /\ Live
    /\ proc[k] = "eof"
    /\ proc' = [proc EXCEPT ![k] = "exited"]
    /\ returncode' = [returncode EXCEPT ![k] = rc]
    /\ alive' = [alive EXCEPT ![k] = alive[k] \ {iteration[k] + 1}]
    /\ UNCHANGED <<mainVars, workerVars, step_sender, produced, countVars,
                   obsVars>>

(* a generator the worker no longer holds (its iteration ended on an       *)
(* exception before process.wait()) exits                                  *)
OrphanExit(k, i) ==
    /\ Live
    /\ i \in alive[k]
    /\ ~(proc[k] # "none" /\ i = iteration[k] + 1)
    /\ alive' = [alive EXCEPT ![k] = alive[k] \ {i}]
    /\ UNCHANGED <<mainVars, workerVars, step_sender, proc, returncode, produced, countVars,
                   obsVars>>

Sleeping == {"offset_sleep", "interval_sleep"}

(* one unit of time passes: every running sleep and the running            *)
(* join(timeout) have one unit less to go; the observers count the time    *)
(* since the thread was started (up to the step's start_time) and, between *)
(* two iterations, since the last one ended (up to the step's interval)    *)
Tick ==
    /\ Live
    /\ rem' = [k \in Workers |->
                 IF pc[k] \in Sleeping /\ rem[k] > 0 THEN rem[k] - 1 ELSE rem[k]]
    /\ grace' = IF mainpc = "grace" /\ grace > 0 THEN grace - 1 ELSE grace
    /\ sinceLaunch' = [k \in Workers |->
                 IF pc[k] \notin {"unstarted", "done"}
                    /\ sinceLaunch[k] < StepOf(k).start_time_seconds
                 THEN sinceLaunch[k] + 1
                 ELSE sinceLaunch[k]]
    /\ sinceEnd' = [k \in Workers |->
                 IF pc[k] \in {"loop", "interval_sleep", "iterate"}
                    /\ sinceEnd[k] < StepOf(k).interval_seconds
                 THEN sinceEnd[k] + 1
                 ELSE sinceEnd[k]]
    /\ UNCHANGED <<document, otlp_sender, call, error, declared, steps, mainpc, mi, success,
                   result, stop_event, step_threads, interrupted>>
    /\ UNCHANGED <<pc, iteration, procVars, countVars, anyFailed, midAtStop,
                   reported>>

(* --------------------------- specification ----------------------------- *)
Threads == 1..step_threads

(* the steps of the program and of the generator processes, and the clock *)
ProgramStep ==
    \/ LoadScenario
    \/ ExecuteScenario
    \/ ScheduleStep
    \/ JoinThread
    \/ GraceJoin
    \/ \E k \in Threads : WorkerStart(k)
    \/ \E k \in Threads : OffsetWake(k)
    \/ \E k \in Threads : CheckStop(k)
    \/ \E k \in Threads : LoopTop(k)
    \/ \E k \in Threads : IntervalWake(k)
    \/ \E k \in Threads : StartIteration(k)
    \/ \E k \in Threads : \E line \in Lines : \E outcome \in Responses :
          ReadLine(k, line, outcome)
    \/ \E k \in Threads : SendLog(k)
    \/ \E k \in Threads : ReadEOF(k)
    \/ \E k \in Threads : WaitProcess(k)
    \/ \E k \in Threads : GenClose(k)
    \/ \E k \in Threads : \E rc \in {0, 1} : GenExit(k, rc)
    \/ \E k \in Threads : \E i \in 1..MaxIter : OrphanExit(k, i)
    \/ Tick

Next == Interrupt \/ ProgramStep

Spec == Init /\ [][Next]_vars

(* A run in which the operator interrupts at most once, the main thread    *)
(* keeps running and time keeps passing.  Nothing is assumed of the        *)
(* workers and of the generator processes: they may stop for ever.         *)
InterruptOnce == ~interrupted /\ Interrupt

NextOnce == InterruptOnce \/ ProgramStep

SpecOnce ==
    Init /\ [][NextOnce]_vars /\ WF_vars(Tick) /\ WF_vars(GraceJoin)

(* A run without an interruption in which the main thread, once in        *)
(* execute_scenario, and every worker thread keep being scheduled, every   *)
(* generator process goes on to close its output and to exit, and time     *)
(* keeps passing.                                                          *)
MainStep ==
    \/ ExecuteScenario
    \/ ScheduleStep
    \/ JoinThread

WorkerStep(k) ==
    \/ WorkerStart(k)
    \/ OffsetWake(k)
    \/ CheckStop(k)
    \/ LoopTop(k)
    \/ IntervalWake(k)
    \/ StartIteration(k)
    \/ \E line \in Lines : \E outcome \in Responses :
          ReadLine(k, line, outcome)
    \/ SendLog(k)
    \/ ReadEOF(k)
    \/ WaitProcess(k)

GeneratorStep(k) ==
    \/ GenClose(k)
    \/ \E rc \in {0, 1} : GenExit(k, rc)
    \/ \E i \in 1..MaxIter : OrphanExit(k, i)

NextFair ==
    \/ LoadScenario
    \/ MainStep
    \/ \E k \in Threads : WorkerStart(k)
    \/ \E k \in Threads : OffsetWake(k)
    \/ \E k \in Threads : CheckStop(k)
    \/ \E k \in Threads : LoopTop(k)
    \/ \E k \in Threads : IntervalWake(k)
    \/ \E k \in Threads : StartIteration(k)
    \/ \E k \in Threads : \E line \in Lines : \E outcome \in Responses :
          ReadLine(k, line, outcome)
    \/ \E k \in Threads : SendLog(k)
    \/ \E k \in Threads : ReadEOF(k)
    \/ \E k \in Threads : WaitProcess(k)
    \/ \E k \in Threads : GenClose(k)
    \/ \E k \in Threads : \E rc \in {0, 1} : GenExit(k, rc)
    \/ \E k \in Threads : \E i \in 1..MaxIter : OrphanExit(k, i)
    \/ Tick

SpecFair ==
    /\ Init
    /\ [][NextFair]_vars
    /\ WF_vars(MainStep)
    /\ WF_vars(Tick)
    /\ \A k \in Workers : WF_vars(k \in Threads /\ WorkerStep(k))
    /\ \A k \in Workers : WF_vars(k \in Threads /\ GeneratorStep(k))

(* ExecuteAgain on an executor that starts every call with a fresh flag *)
ExecuteAgain_ClearsFlag ==
    /\ mainpc = "returned"
    /\ \A k \in Threads : pc[k] = "done"
    /\ mainpc' = "schedule"
    /\ mi' = 1
    /\ success' = TRUE
    /\ stop_event' = FALSE
    /\ step_threads' = 0
    /\ grace' = 0
    /\ pc' = [k \in Workers |-> "unstarted"]
    /\ iteration' = [k \in Workers |-> 0]
    /\ rem' = [k \in Workers |-> 0]
    /\ step_sender' = [k \in Workers |-> NoSender]
    /\ proc' = [k \in Workers |-> "none"]
    /\ returncode' = [k \in Workers |-> 0]
    /\ produced' = [k \in Workers |-> <<>>]
    /\ line_count' = [k \in Workers |-> 0]
    /\ sent_count' = [k \in Workers |-> 0]
    /\ filtered_count' = [k \in Workers |-> 0]
    /\ delivered' = [k \in Workers |-> <<>>]
    /\ sinceLaunch' = [k \in Workers |-> 0]
    /\ sinceEnd' = [k \in Workers |-> 0]
    /\ anyFailed' = FALSE
    /\ midAtStop' = [k \in Workers |-> FALSE]
    /\ reported' = [k \in Workers |-> NoReport]
    /\ UNCHANGED <<document, otlp_sender, call, error, declared, steps,
                   result, interrupted, alive>>

(* A later call of execute_scenario on the same executor with the same     *)
(* scenario, made after an earlier call has returned and its threads have  *)
(* ended, up to the scheduling loop.  The executor keeps its stop_event;   *)
(* the threads of the earlier call, which join() passes at once, are left  *)
(* out of step_threads, and the threads of this call take their places.    *)
(* `result` still holds what the earlier call returned.                    *)
ExecuteAgain ==
    /\ mainpc = "returned"
    /\ \A k \in Threads : pc[k] = "done"
    /\ mainpc' = "schedule"
    /\ mi' = 1
    /\ success' = TRUE
    /\ step_threads' = 0
    /\ grace' = 0
    /\ pc' = [k \in Workers |-> "unstarted"]
    /\ iteration' = [k \in Workers |-> 0]
    /\ rem' = [k \in Workers |-> 0]
    /\ step_sender' = [k \in Workers |-> NoSender]
    /\ proc' = [k \in Workers |-> "none"]
    /\ returncode' = [k \in Workers |-> 0]
    /\ produced' = [k \in Workers |-> <<>>]
    /\ line_count' = [k \in Workers |-> 0]
    /\ sent_count' = [k \in Workers |-> 0]
    /\ filtered_count' = [k \in Workers |-> 0]
    /\ delivered' = [k \in Workers |-> <<>>]
    /\ sinceLaunch' = [k \in Workers |-> 0]
    /\ sinceEnd' = [k \in Workers |-> 0]
    /\ anyFailed' = FALSE
    /\ midAtStop' = [k \in Workers |-> FALSE]
    /\ reported' = [k \in Workers |-> NoReport]
    /\ UNCHANGED <<document, otlp_sender, call, error, declared, steps,
                   result, stop_event, interrupted, alive>>

(* Runs in which execute_scenario is called again on the same executor.    *)
NextAgain ==
    \/ Interrupt
    \/ ProgramStep
    \/ ExecuteAgain

SpecAgain == Init /\ [][NextAgain]_vars

(* ----------------------- calls of the functions ------------------------ *)
(* One of the pure functions of the scenario module is called on inputs of *)
(* bounded size; `call` holds the inputs and the result.                   *)
executorVars ==
    <<document, otlp_sender, error, declared, steps, mainpc, mi, success,
      result, stop_event, step_threads, grace, interrupted, workerVars,
      procVars, countVars, obsVars>>

(* lines of up to MaxText characters *)
TextLines == UNION { [1..n -> {"a", "b", "c"}] : n \in 0..MaxText }

Patterns == { <<"a">>, <<"b">>, <<"a", "b">> }

FilterLists == UNION { [1..n -> Patterns] : n \in 0..MaxRules }

(* replacement templates: plain text, a token, a reference to a group *)
Templates ==
    { <<"b">>, <<"c">>, <<"%", "n", "[", "1", ",", "2", "]">>,
      <<"\\", "1">> }

RuleLists ==
    UNION { [1..n -> {<<"a">>, <<"b">>, <<"a", "a">>} \X Templates] :
            n \in 0..MaxRules }

(* the lines given to apply_replacements: the characters of the patterns  *)
RuleLines ==
    { line \in TextLines : \A i \in 1..Len(line) : line[i] \in {"a", "b"} }

(* templates of _format_replacement_variables: every kind of token, the    *)
(* same token twice, a token after a literal "%", unrecognised sequences   *)
TokenTemplates ==
    { <<"i", "d">>,
      <<"%", "s">>,
      <<"%", "e", "%", "e">>,
      <<"%", "n", "[", "1", ",", "2", "]">>,
      <<"%", "n", "[", "1", ",", "2", "]", "%", "n", "[", "1", ",", "2", "]">>,
      <<"%", "n", "[", "1", ",", "2", "]", "%", "n", "[", "3", ",", "4", "]">>,
      <<"%", "x", "[", "2", "]">>,
      <<"%", "X", "[", "1", "]", "%", "X", "[", "1", "]">>,
      <<"%", "r", "[", "1", "]", "%", "r", "[", "1", "]">>,
      <<"%", "%", "r", "[", "1", "]">>,
      <<"%", "g">>,
      <<"%", "z", "%", " ", "1", "%">>,
      <<"%", "n", "[", "1", "]", "%", "x", "%", "r", "[", "]">> }

(* steps for get_total_scenario_duration *)
TimedSteps ==
    [ start_time_seconds : {0, 30, 60},
      interval_seconds : {0, 30, 60},
      iterations : {1, 2, 3} ]

TimedStepLists ==
    UNION { [1..n -> TimedSteps] : n \in 0..MaxSteps }
    \cup { << [start_time_seconds |-> 0, interval_seconds |-> 30,
                iterations |-> 2],
              [start_time_seconds |-> 30, interval_seconds |-> 60,
                iterations |-> 1],
              [start_time_seconds |-> 60, interval_seconds |-> 30,
                iterations |-> 3] >> }

(* values given as a duration *)
Durations ==
    { Number(45), Number(0), Number(-1),
      Str(<<"3", "0", "s">>), Str(<<"5", "m">>), Str(<<"1", "h">>),
      Str(<<"9", "0">>), Str(<<"5", "M">>), Str(<<"1", ".", "0", "h">>),
      Str(<<" ", "5", "m", " ">>), Str(<<"5", " ", "m">>),
      Str(<<"5", "\n">>),
      Str(<<"i", "n", "v", "a", "l", "i", "d">>), Str(<<"1", "0", "x">>),
      Str(<<"-", "1", "s">>), Str(<<"+", "1", "s">>), Str(<<>>),
      Str(<<"s">>), Str(<<"5", "m", "s">>), Str(<<"5", "m", "5">>),
      Str(<<"1", ".">>), Str(<<".", "5">>), Str(<<"1", ".", "s">>),
      Str(<<"5", "s", " ", "x">>) }

CallMatchesFilters(filters, line) ==
    /\ call = NoCall
    /\ call' = [ function |-> "matches_filters",
                 filters |-> filters,
                 line |-> line,
                 result |-> matches_filters([filters |-> filters], line) ]
    /\ UNCHANGED executorVars

(* apply_replacements(line), and apply_replacements of its result *)
CallApplyReplacements(rules, line, draws, more) ==
    /\ call = NoCall
    /\ call' =
         LET step == [replacements |-> rules] IN
         [ function |-> "apply_replacements",
           rules |-> rules,
           line |-> line,
           raises |-> apply_replacements_raises(step),
           expanded |->
               [j \in 1..Len(rules) |->
                   _format_replacement_variables(rules[j][2], draws[j])],
           expanded_again |->
               [j \in 1..Len(rules) |->
                   _format_replacement_variables(rules[j][2], more[j])],
           result |-> IF apply_replacements_raises(step)
                      THEN <<>>
                      ELSE apply_replacements(step, line, draws),
           again |-> IF apply_replacements_raises(step)
                     THEN <<>>
                     ELSE apply_replacements(step,
                              apply_replacements(step, line, draws), more) ]
    /\ UNCHANGED executorVars

CallFormatReplacementVariables(template, draw) ==
    /\ call = NoCall
    /\ call' = [ function |-> "_format_replacement_variables",
                 template |-> template,
                 drawn |-> draw,
                 result |-> _format_replacement_variables(template, draw) ]
    /\ UNCHANGED executorVars

CallGetTotalScenarioDuration(timed) ==
    /\ call = NoCall
    /\ call' = [ function |-> "get_total_scenario_duration",
                 steps |-> timed,
                 result |-> get_total_scenario_duration(timed) ]
    /\ UNCHANGED executorVars

CallParseDuration(duration_str) ==
    /\ call = NoCall
    /\ call' = [ function |-> "_parse_duration",
                 duration_str |-> duration_str,
                 raises |-> _parse_duration_raises(duration_str),
                 message |-> IF _parse_duration_raises(duration_str)
                             THEN <<"Invalid duration format: ",
                                    lower(strip(duration_str.chars))>>
                             ELSE <<>>,
                 result |-> IF _parse_duration_raises(duration_str)
                            THEN 0
                            ELSE _parse_duration(duration_str) ]
    /\ UNCHANGED executorVars

InitFunctions ==
    Init /\ document = [file |-> "missing", data |-> None]

NextFunctions ==
    \/ /\ call = NoCall
       /\ \E filters \in FilterLists, line \in TextLines :
             CallMatchesFilters(filters, line)
    \/ /\ call = NoCall
       /\ \E rules \in RuleLists, line \in RuleLines :
             \E draws, more \in RuleDraws([replacements |-> rules]) :
                 CallApplyReplacements(rules, line, draws, more)
    \/ /\ call = NoCall
       /\ \E template \in TokenTemplates : \E draw \in Draws(template) :
             CallFormatReplacementVariables(template, draw)
    \/ /\ call = NoCall
       /\ \E timed \in TimedStepLists : CallGetTotalScenarioDuration(timed)
    \/ /\ call = NoCall
       /\ \E duration_str \in Durations : CallParseDuration(duration_str)

SpecFunctions == InitFunctions /\ [][NextFunctions]_vars

(* --------------------- recurring executions (sender.py) ---------------- *)
(* OTLPLogSender.run_recurring_executions, followed statement by           *)
(* statement; `call` holds its arguments, its locals, its position and     *)
(* what an observer counts: the calls of process_flog_output (runs), the   *)
(* failed ones, the sleeps begun (waits), the time left of the running     *)
(* sleep (rem) and the KeyboardInterrupts raised in the main thread during *)
(* the call (interrupts).                                                  *)

(* What process_flog_output returns: (True, n) when flog exited with 0,    *)
(* (False, n) when it exited with another status, and (False, 0) when flog *)
(* was not found, when a KeyboardInterrupt arrived inside it (the process  *)
(* is terminated and the interrupt goes no further) or when a line raised. *)
ProcessOutcomes ==
    { [success |-> TRUE, line_count |-> n, cause |-> "exit 0"] :
          n \in 0..MaxLogs }
    \cup { [success |-> FALSE, line_count |-> n, cause |-> "exit 1"] :
          n \in 0..MaxLogs }
    \cup { [success |-> FALSE, line_count |-> 0, cause |-> c] :
          c \in {"FileNotFoundError", "KeyboardInterrupt", "Exception"} }

(* run_recurring_executions(flog_cmd, wait_time, max_executions) is        *)
(* called: the locals are set and the loop is about to test its condition  *)
CallRunRecurringExecutions(wait_time, max_executions) ==
    /\ call = NoCall
    /\ call' = [ function |-> "run_recurring_executions",
                 wait_time |-> wait_time,
                 max_executions |-> max_executions,
                 at |-> "while",
                 execution_count |-> 0,
                 total_logs_processed |-> 0,
                 runs |-> 0,
                 failed |-> 0,
                 waits |-> 0,
                 rem |-> 0,
                 stopped |-> FALSE,
                 interrupts |-> 0,
                 result |-> "none" ]
    /\ UNCHANGED executorVars

(* `while max_executions == 0 or execution_count < max_executions:` and    *)
(* `execution_count += 1`; an endless run is followed for MaxRuns          *)
(* executions                                                              *)
WhileTest ==
    /\ call.function = "run_recurring_executions"
    /\ call.at = "while"
    /\ IF call.max_executions = 0
          \/ call.execution_count < call.max_executions
       THEN /\ call.execution_count < MaxRuns
            /\ call' = [call EXCEPT !.at = "execute",
                                    !.execution_count = @ + 1]
       ELSE call' = [call EXCEPT !.at = "summary"]
    /\ UNCHANGED executorVars

(* `success, line_count = self.process_flog_output(flog_cmd)` and          *)
(* `total_logs_processed += line_count`; the outcome is logged             *)
ProcessFlogOutput(outcome) ==
    /\ call.function = "run_recurring_executions"
    /\ call.at = "execute"
    /\ call' = [call EXCEPT
                   !.at = "check",
                   !.runs = @ + 1,
                   !.failed = IF outcome.success THEN @ ELSE @ + 1,
                   !.interrupts = IF outcome.cause = "KeyboardInterrupt"
                                  THEN @ + 1 ELSE @,
                   !.total_logs_processed = @ + outcome.line_count]
    /\ UNCHANGED executorVars

(* `if max_executions > 0 and execution_count >= max_executions: break`,   *)
(* then `if wait_time > 0: time.sleep(wait_time)` begins                   *)
AfterExecution ==
    /\ call.function = "run_recurring_executions"
    /\ call.at = "check"
    /\ IF call.max_executions > 0
          /\ call.execution_count >= call.max_executions
       THEN call' = [call EXCEPT !.at = "summary"]
       ELSE IF call.wait_time > 0
       THEN call' = [call EXCEPT !.at = "sleep",
                                 !.waits = @ + 1,
                                 !.rem = call.wait_time]
       ELSE call' = [call EXCEPT !.at = "while"]
    /\ UNCHANGED executorVars

(* one unit of the sleep passes *)
WaitTick ==
    /\ call.function = "run_recurring_executions"
    /\ call.at = "sleep"
    /\ call.rem > 0
    /\ call' = [call EXCEPT !.rem = @ - 1]
    /\ UNCHANGED executorVars

(* time.sleep(wait_time) returns *)
WaitEnds ==
    /\ call.function = "run_recurring_executions"
    /\ call.at = "sleep"
    /\ call.rem = 0
    /\ call' = [call EXCEPT !.at = "while"]
    /\ UNCHANGED executorVars

(* KeyboardInterrupt inside the try of run_recurring_executions and        *)
(* outside process_flog_output: `except KeyboardInterrupt` logs and goes   *)
(* on to the summary                                                       *)
StoppedByUser ==
    /\ call.function = "run_recurring_executions"
    /\ call.at \in {"while", "check", "sleep"}
    /\ call' = [call EXCEPT !.at = "summary", !.stopped = TRUE,
                            !.interrupts = @ + 1]
    /\ UNCHANGED executorVars

(* the summary is logged and `return execution_count > 0` *)
ExecutionSummary ==
    /\ call.function = "run_recurring_executions"
    /\ call.at = "summary"
    /\ call' = [call EXCEPT !.at = "returned",
                            !.result = Returned(call.execution_count > 0)]
    /\ UNCHANGED executorVars

NextRecurring ==
    \/ /\ call = NoCall
       /\ \E wait_time \in 0..MaxWait, max_executions \in 0..MaxExecutions :
             CallRunRecurringExecutions(wait_time, max_executions)
    \/ WhileTest
    \/ \E outcome \in ProcessOutcomes : ProcessFlogOutput(outcome)
    \/ AfterExecution
    \/ WaitTick
    \/ WaitEnds
    \/ StoppedByUser
    \/ ExecutionSummary

SpecRecurring == InitFunctions /\ [][NextRecurring]_vars

(* ------------------------------ claims --------------------------------- *)
InIteration == {"reading", "post", "wait"}

(* C1: execute_scenario returns true if and only if no iteration was       *)
(* reported as failed and no operator interruption occurred.               *)
C1_SuccessIffNoFailure ==
    mainpc = "returned" => (result = "True" <=> (~anyFailed /\ ~interrupted))

(* C2: iteration i+1 of a step does not start before the generator process *)
(* of iteration i of that step has exited, whatever the outcome of         *)
(* iteration i: while a worker is in an iteration, no generator of an      *)
(* earlier iteration of its step is alive.                                 *)
C2_IterationsNeverOverlap ==
    \A k \in Workers :
        pc[k] \in InIteration => \A j \in alive[k] : j = iteration[k] + 1

(* C3: no iteration of a step starts before the step's start offset has    *)
(* elapsed since its thread was started.                                   *)
C3_StartOffsetElapsed ==
    \A k \in Workers :
        pc[k] \in {"iterate"} \cup InIteration
            => sinceLaunch[k] >= StepOf(k).start_time_seconds

C3_Witness ==
    \E k \in Workers :
        /\ pc[k] = "reading"
        /\ StepOf(k).start_time_seconds > 0

(* C4: iteration i+1 (i >= 1) starts only after the step's interval has    *)
(* elapsed since iteration i ended, and there is no interval wait before   *)
(* iteration 1.                                                            *)
C4_IntervalElapsed ==
    \A k \in Workers :
        /\ pc[k] = "iterate" /\ iteration[k] > 0
              => sinceEnd[k] >= StepOf(k).interval_seconds
        /\ pc[k] = "interval_sleep" => iteration[k] > 0

C4_Witness ==
    \E k \in Workers :
        /\ pc[k] = "reading"
        /\ iteration[k] > 0
        /\ StepOf(k).interval_seconds > 0

C6_ReturnAfterAllWorkers ==
    mainpc = "returned" /\ ~interrupted
        => /\ step_threads = Len(steps)
           /\ \A k \in Threads : pc[k] = "done"

C6_Witness ==
    /\ mainpc = "returned"
    /\ ~interrupted
    /\ step_threads = MaxSteps
    /\ \A k \in Threads : iteration[k] > 0

(* C7: with the stop flag set, a worker that is at the test after its      *)
(* initial wait ends without running an iteration, and a worker that is at *)
(* the top of its loop ends without starting a further iteration.          *)
C7_StopAtBoundary ==
    [][\A k \in Workers :
          stop_event /\ pc[k] \in {"check_stop", "loop"} /\ pc'[k] # pc[k]
              => /\ pc'[k] = "done"
                 /\ iteration'[k] = iteration[k]
                 /\ pc[k] = "check_stop" => iteration[k] = 0]_vars

C7_Witness ==
    /\ stop_event
    /\ \E k \in Workers :
          /\ pc[k] = "done"
          /\ iteration[k] > 0
          /\ iteration[k] < StepOf(k).iterations
    /\ \E k \in Workers :
          /\ pc[k] = "done"
          /\ iteration[k] = 0
          /\ StepOf(k).start_time_seconds > 0
          /\ StepOf(k).iterations > 0

(* C8: with the stop flag set, a worker in an iteration leaves the read    *)
(* loop only at the end of the generator's output (or on an exception      *)
(* raised by a line), and leaves process.wait() only when the generator    *)
(* has exited; it is then at the top of its loop, where the flag is read.  *)
C8_IterationNotCutShort ==
    [][\A k \in Workers :
          stop_event =>
            /\ pc[k] = "reading" /\ pc'[k] = "wait"
                  => proc[k] \in {"eof", "exited"}
            /\ pc[k] = "reading" /\ pc'[k] \notin InIteration
                  => /\ pc'[k] = "loop"
                     /\ proc[k] = "running"
                     /\ \E line \in Lines :
                           /\ strip(line) # <<>>
                           /\ matches_filters(StepOf(k), strip(line))
                           /\ \/ apply_replacements_raises(StepOf(k))
                              \/ parse_flog_line_raises(strip(line))
            /\ pc[k] = "wait" /\ pc'[k] # "wait"
                  => pc'[k] = "loop" /\ proc[k] = "exited"]_vars

C8_Witness ==
    \E k \in Workers :
        /\ midAtStop[k]
        /\ stop_event
        /\ pc[k] = "wait"
        /\ proc[k] = "exited"
        /\ sent_count[k] = MaxLines

(* C9: when the operator interrupts execute_scenario while it joins the    *)
(* threads, the stop flag is set and execute_scenario returns false.       *)
C9_InterruptedReturnsFalse ==
    /\ mainpc = "grace" => stop_event /\ ~success
    /\ mainpc = "returned" /\ interrupted => stop_event /\ result = "False"

C9_Witness ==
    /\ mainpc = "returned"
    /\ interrupted
    /\ ~anyFailed
    /\ \E k \in Threads : iteration[k] > 0

(* C10: after an operator interruption, execute_scenario eventually        *)
(* returns, even if a worker never ends.                                   *)
C10_InterruptedReturns == (mainpc = "grace") ~> (mainpc = "returned")

C10_Witness ==
    /\ mainpc = "returned"
    /\ interrupted
    /\ \E k \in Threads : pc[k] = "wait" /\ proc[k] # "exited"

(* C11: only a stop request halts a worker: a worker that has ended while  *)
(* the stop flag is clear has run all the iterations of its step, whatever *)
(* failed in them.                                                         *)
C11_OnlyStopHaltsWorker ==
    \A k \in Threads :
        pc[k] = "done" /\ ~stop_event
            => iteration[k] >= StepOf(k).iterations

(* C12: a failure inside one worker (an iteration that ends as failed, or  *)
(* an error that ends the worker) changes nothing of another worker, of    *)
(* the stop flag or of the main thread; a worker that ends with the stop   *)
(* flag clear and no error of its own has run all its iterations, whatever *)
(* failed elsewhere; and without interruption execute_scenario returns     *)
(* only when every worker has ended.                                       *)
C12_FailureStaysInWorker ==
    /\ [](\A k \in Threads :
            /\ pc[k] = "done"
            /\ ~stop_event
            /\ ~create_step_sender_raises(StepOf(k).parameters)
            => iteration[k] >= StepOf(k).iterations)
    /\ [](mainpc = "returned" /\ ~interrupted /\ anyFailed
            => \A k \in Threads : pc[k] = "done")
    /\ [][\A j \in Workers :
            \/ pc[j] = "iterate" /\ pc'[j] \in {"loop", "done"}
            \/ pc[j] \in {"reading", "post"} /\ pc'[j] = "loop"
            \/ pc[j] = "wait" /\ pc'[j] = "loop" /\ returncode[j] # 0
            => /\ \A k \in Workers \ {j} :
                     /\ pc'[k] = pc[k]
                     /\ iteration'[k] = iteration[k]
                     /\ rem'[k] = rem[k]
                     /\ proc'[k] = proc[k]
                     /\ alive'[k] = alive[k]
               /\ stop_event' = stop_event
               /\ mainpc' = mainpc
               /\ mi' = mi
               /\ success' = success]_vars

C12_Witness ==
    /\ mainpc = "returned"
    /\ ~interrupted
    /\ anyFailed
    /\ \E j, k \in Threads :
          /\ j # k
          /\ pc[j] = "done"
          /\ iteration[j] < StepOf(j).iterations
          /\ pc[k] = "done"
          /\ StepOf(k).iterations > 0
          /\ iteration[k] = StepOf(k).iterations

(* C13: an iteration is reported as failed exactly when its generator      *)
(* exited with a non-zero status or could not be run, and otherwise as     *)
(* succeeded with the counts of the iteration; when the status is decided  *)
(* the generator has exited (or was never started).                        *)
C13_FailedIffNonZeroExit ==
    \A k \in Workers :
        reported[k].made =>
            /\ ~reported[k].success
                  <=> \/ reported[k].generator = "none"
                      \/ /\ reported[k].generator = "exited"
                         /\ reported[k].returncode # 0
            /\ reported[k].generator \in {"none", "exited"}
            /\ reported[k].success
                  => reported[k].log_count = reported[k].handed

C15_DeliveredInOrder ==
    \A k \in Threads :
        LET Passes(l) ==
                strip(l) # <<>> /\ matches_filters(StepOf(k), strip(l))
            passing == SelectSeq(produced[k], Passes)
        IN  /\ Len(delivered[k]) = Len(passing)
            /\ \A i \in 1..Len(passing) :
                  \E draws \in RuleDraws(StepOf(k)) :
                      delivered[k][i].line =
                          apply_replacements(StepOf(k), strip(passing[i]),
                                             draws)

C15_Witness ==
    \E k \in Threads :
        /\ Len(delivered[k]) = 2
        /\ delivered[k][1].line # delivered[k][2].line
        /\ sent_count[k] = 2

(* C16: a delivery that fails (a status other than 200, or an exception of *)
(* the transport) does not end the iteration: send_log returns, the line   *)
(* is counted as sent and the read loop goes on; and the status of the     *)
(* iteration is decided by the generator's exit status alone, with every   *)
(* line handed over counted as sent.                                       *)
C16_DeliveryFailureSwallowed ==
    [][\A k \in Workers :
          /\ pc[k] = "post" /\ pc'[k] # "post"
                => /\ pc'[k] = "reading"
                   /\ sent_count'[k] = sent_count[k] + 1
                   /\ delivered'[k] = delivered[k]
                   /\ produced'[k] = produced[k]
                   /\ anyFailed' = anyFailed
          /\ pc[k] = "wait" /\ pc'[k] = "loop"
                => /\ reported'[k].success = (returncode[k] = 0)
                   /\ reported'[k].log_count = Len(delivered[k])]_vars

C16_Witness ==
    \E k \in Workers :
        /\ reported[k].made
        /\ reported[k].success
        /\ reported[k].log_count = 2
        /\ reported[k].failures = 2
        /\ ~anyFailed

(* C17: when load_scenario raises (missing file, undecodable document,     *)
(* structural or step validation error), the caller holds the exception    *)
(* and nothing is executed: execute_scenario is not entered, no worker     *)
(* thread is started and no generator is run.                              *)
C17_LoadErrorPreventsExecution ==
    /\ error # NoError
          => /\ mainpc = "load_error"
             /\ result = "none"
             /\ step_threads = 0
             /\ \A k \in Workers :
                   pc[k] = "unstarted" /\ proc[k] = "none" /\ alive[k] = {}
    /\ mainpc # "load" /\ document.file = "missing"
          => error.type = "FileNotFoundError"
    /\ mainpc # "load" /\ document.file = "undecodable"
          => error.type = "ValueError"
    /\ mainpc \notin {"load", "load_error"} => error = NoError

C17_Witness ==
    /\ mainpc = "load_error"
    /\ error.type = "FileNotFoundError"
    /\ step_threads = 0

(* The first of the five structural conditions that a decoded document     *)
(* fails: 1 not a mapping, 2 no `name` key, 3 no `steps` key, 4 `steps`    *)
(* not a sequence, 5 `steps` empty; 0 when it fails none.                  *)
FailedCondition(data) ==
    IF data.type # "dict" THEN 1
    ELSE IF "name" \notin DOMAIN data.items THEN 2
    ELSE IF "steps" \notin DOMAIN data.items THEN 3
    ELSE IF data.items.steps.type # "list" THEN 4
    ELSE IF data.items.steps.elements = <<>> THEN 5
    ELSE 0

(* C18 as stated: a decoded document that fails one of the five structural *)
(* conditions is rejected with a validation error, and the error tells     *)
(* which condition failed: no document failing another condition is        *)
(* rejected with the same error.                                           *)
C18_ErrorIdentifiesCondition ==
    mainpc # "load" /\ document.file = "ok"
                    /\ FailedCondition(document.data) # 0
        => /\ mainpc = "load_error"
           /\ error.type = "ValueError"
           /\ \A d \in Documents :
                 /\ d.file = "ok"
                 /\ FailedCondition(d.data) # 0
                 /\ FailedCondition(d.data) # FailedCondition(document.data)
                 => load_scenario(d).error # error

(* C18 amended: a decoded document that fails one of the five structural   *)
(* conditions is rejected with a ValueError whose message is that of the   *)
(* first failing check, a missing `steps` key and a `steps` value that is  *)
(* no sequence sharing one message; a load that succeeds yields a mapping  *)
(* with a `name` key and at least one step.                                *)
C18_StructureRejected ==
    mainpc # "load" /\ document.file = "ok"
        => LET failed == FailedCondition(document.data) IN
           /\ failed # 0 =>
                 /\ mainpc = "load_error"
                 /\ error.type = "ValueError"
                 /\ error.message =
                       CASE failed = 1 ->
                              "Scenario file must contain a YAML object"
                         [] failed = 2 -> "Scenario must have a 'name' field"
                         [] failed \in {3, 4} ->
                              "Scenario must have a 'steps' array"
                         [] failed = 5 ->
                              "Scenario must have at least one step"
           /\ mainpc # "load_error" =>
                 /\ failed = 0
                 /\ "name" \in DOMAIN document.data.items
                 /\ Len(steps) >= 1
                 /\ Len(steps) = Len(document.data.items.steps.elements)

C18_Witness ==
    /\ mainpc = "load_error"
    /\ document.file = "ok"
    /\ FailedCondition(document.data) = 4
    /\ error = ValueError("Scenario must have a 'steps' array", 0)

(* The declared steps of a document that passes the structural checks *)
StepsData == document.data.items.steps.elements

(* C19: a step with an invalid filter pattern, an invalid rewrite pattern, *)
(* a malformed rewrite rule or a malformed duration makes load fail, with   *)
(* an error that carries the 1-based position of the first such step in    *)
(* the declared list; no worker ever runs a step with such a pattern or    *)
(* rule.                                                                   *)
C19_StepErrorsAtLoad ==
    mainpc # "load" /\ document.file = "ok"
                    /\ FailedCondition(document.data) = 0
        => LET bad == {i \in 1..Len(StepsData) : StepsData[i] \in BadStepData}
           IN
           /\ bad # {} =>
                 /\ mainpc = "load_error"
                 /\ error.type = "ValueError"
                 /\ error.message = "Error parsing step"
                 /\ error.step \in bad
                 /\ \A i \in bad : error.step <= i
                 /\ \A k \in Workers : pc[k] = "unstarted"
           /\ mainpc # "load_error" =>
                 \A i \in 1..Len(steps) :
                     /\ \A j \in 1..Len(steps[i].filters) :
                           ~re_compile_raises(steps[i].filters[j])
                     /\ \A j \in 1..Len(steps[i].replacements) :
                           ~re_compile_raises(steps[i].replacements[j][1])

C19_Witness ==
    /\ mainpc = "load_error"
    /\ error = ValueError("Error parsing step", 2)
    /\ StepsData[1] \notin BadStepData
    /\ StepsData[2] \in BadStepData

(* A declared step whose start_time is a negative number or a signed text *)
NegativeStart(step_data) ==
    /\ step_data.type = "dict"
    /\ "start_time" \in DOMAIN step_data.items
    /\ LET v == step_data.items.start_time IN
         \/ v.type = "int" /\ v.number < 0
         \/ v.type = "str" /\ v.chars # <<>> /\ v.chars[1] = "-"

(* C20: load_scenario never returns a step with a negative start offset:   *)
(* a document with such a step is rejected with a ValueError, and every    *)
(* step that a worker runs has start_time_seconds >= 0.                    *)
C20_NoNegativeStart ==
    /\ \A i \in 1..Len(steps) : steps[i].start_time_seconds >= 0
    /\ \A k \in Threads : StepOf(k).start_time_seconds >= 0
    /\ mainpc # "load" /\ document.file = "ok"
                       /\ FailedCondition(document.data) = 0
                       /\ (\E i \in 1..Len(StepsData) :
                               NegativeStart(StepsData[i]))
          => /\ mainpc = "load_error"
             /\ error.type = "ValueError"
             /\ step_threads = 0

C20_Witness ==
    /\ mainpc = "load_error"
    /\ error.message = "Step has negative start_time"
    /\ Len(declared) = 2
    /\ declared[1].start_time_seconds >= 0
    /\ declared[2].start_time_seconds < 0

(* C21: execution never changes the scenario or the sender of the          *)
(* executor: once loaded, the steps (timing, iterations, parameters,       *)
(* filters, rewrite rules) stay as they are and the base sender keeps the  *)
(* endpoint, service name, delay, headers and attributes it was given, in  *)
(* every step of every worker; the overrides of a step are found only in   *)
(* the sender made for the iteration.                                      *)
C21_ExecutionMutatesNothing ==
    /\ [](otlp_sender = OTLPLogSender)
    /\ [](\A k \in Threads :
            step_sender[k] # NoSender /\ StepOf(k).parameters # NoParameters
            => /\ step_sender[k].service_name = StepOf(k).parameters.service_name
               /\ step_sender[k].service_name # otlp_sender.service_name
               /\ step_sender[k].otlp_attributes # otlp_sender.otlp_attributes
               /\ step_sender[k].endpoint = otlp_sender.endpoint)
    /\ [][/\ otlp_sender' = otlp_sender
          /\ mainpc # "load" => steps' = steps /\ declared' = declared]_vars

C21_Witness ==
    \E k \in Threads :
        /\ pc[k] \in InIteration
        /\ iteration[k] >= 1
        /\ step_sender[k].service_name = "svc"
        /\ step_sender[k].otlp_attributes[<<"k">>] = <<"v">>
        /\ otlp_sender.service_name = "flog-generator"
        /\ otlp_sender.otlp_attributes[<<"k">>] = <<"base">>
        /\ steps = SortByStart(declared)

(* C22: matches_filters is true for every line when the step has no       *)
(* filters; otherwise it is true exactly when at least one of the filters  *)
(* occurs somewhere in the line, some text (possibly none) before it and   *)
(* some after it.                                                          *)
C22_MatchesAnyFilterAnywhere ==
    call.function = "matches_filters"
    => /\ call.filters = <<>> => call.result = TRUE
       /\ call.filters # <<>>
          => call.result =
                (\E j \in 1..Len(call.filters) :
                 \E before, after \in 0..Len(call.line) :
                    /\ before + Len(call.filters[j]) + after = Len(call.line)
                    /\ \A i \in 1..Len(call.filters[j]) :
                          call.line[before + i] = call.filters[j][i])

(* two filters, the first absent from the line, the second found after the *)
(* first character of the line                                             *)
C22_Witness ==
    /\ call.function = "matches_filters"
    /\ call.filters = << <<"a">>, <<"b">> >>
    /\ call.line = <<"c", "b", "c">>
    /\ call.result = TRUE

(* C23: apply_replacements returns the line as it is when the step has no  *)
(* rewrite rule; otherwise, when no template raises, the result is the     *)
(* rules applied from the first to the last, each to the output of the one *)
(* before, and a rule puts its replacement at every match: at every        *)
(* occurrence of a pattern of one character.                               *)
C23_RulesComposedInOrder ==
    call.function = "apply_replacements"
    => LET rules == call.rules
           rule(j, text) == sub(rules[j][1], call.expanded[j], text)
           every(j, text) ==
               [i \in 1..Len(text) |->
                   IF text[i] = rules[j][1][1]
                   THEN call.expanded[j][1]
                   ELSE text[i]]
       IN  /\ rules = <<>> => ~call.raises /\ call.result = call.line
           /\ Len(rules) = 1 /\ ~call.raises
              => /\ call.result = rule(1, call.line)
                 /\ Len(rules[1][1]) = 1
                    => call.result = every(1, call.line)
           /\ Len(rules) = 2 /\ ~call.raises
              => /\ call.result = rule(2, rule(1, call.line))
                 /\ Len(rules[1][1]) = 1 /\ Len(rules[2][1]) = 1
                    => call.result = every(2, every(1, call.line))

(* two rules whose order matters: "a" to "b", then "b" to "c", on "ab"     *)
C23_Witness ==
    /\ call.function = "apply_replacements"
    /\ call.rules = << <<<<"a">>, <<"b">>>>, <<<<"b">>, <<"c">>>> >>
    /\ call.line = <<"a", "b">>
    /\ call.result = <<"c", "c">>

(* C24: apply_replacements is the identity on every line that none of the  *)
(* patterns of the step matches: it returns the line, and a second         *)
(* application to a result that no pattern matches returns that result.    *)
C24_IdentityWithoutMatch ==
    call.function = "apply_replacements"
    => LET unmatched(text) ==
               \A j \in 1..Len(call.rules) : ~search(call.rules[j][1], text)
       IN  /\ unmatched(call.line)
              => ~call.raises /\ call.result = call.line
           /\ ~call.raises /\ unmatched(call.result)
              => call.again = call.result

(* C25: one application of a rule to a line expands the template once and  *)
(* puts that one text at every match of the pattern in the line: with one  *)
(* rule whose pattern is one character, every occurrence of the character  *)
(* becomes the expansion made for the rule and the other characters stay.  *)
(* The expansion is made for each rule and for each line: each rule's text *)
(* is an expansion of its own template.                                    *)
C25_OneExpansionPerRuleApplication ==
    call.function = "apply_replacements" /\ ~call.raises
    => /\ \A j \in 1..Len(call.rules) :
            /\ \E draw \in Draws(call.rules[j][2]) :
                 call.expanded[j] =
                     _format_replacement_variables(call.rules[j][2], draw)
            /\ \E draw \in Draws(call.rules[j][2]) :
                 call.expanded_again[j] =
                     _format_replacement_variables(call.rules[j][2], draw)
       /\ Len(call.rules) = 1 /\ Len(call.rules[1][1]) = 1
          => /\ Len(call.result) = Len(call.line)
             /\ \A i \in 1..Len(call.line) :
                  call.result[i] = IF call.line[i] = call.rules[1][1][1]
                                   THEN call.expanded[1][1]
                                   ELSE call.line[i]

(* two matches in the line get the same number; two rules with the same    *)
(* template get different numbers, and so does the second application      *)
C25_Witness ==
    /\ call.function = "apply_replacements"
    /\ call.rules = << <<<<"a">>, <<"%", "n", "[", "1", ",", "2", "]">>>>,
                       <<<<"b">>, <<"%", "n", "[", "1", ",", "2", "]">>>> >>
    /\ call.line = <<"a", "a", "b">>
    /\ call.result = <<"1", "1", "2">>
    /\ call.expanded_again = << <<"2">>, <<"2">> >>

(* C26: in one expansion every occurrence of a %n[min,max] token gets the  *)
(* value drawn for it: a template made of the same token twice expands to  *)
(* the number drawn for the first occurrence followed by the number drawn  *)
(* for the second, so that two different numbers can appear.               *)
C26_EachOccurrenceItsOwnValue ==
    /\ call.function = "_format_replacement_variables"
    /\ call.template = <<"%", "n", "[", "1", ",", "2", "]",
                         "%", "n", "[", "1", ",", "2", "]">>
    => call.result = str(call.drawn.n[1]) \o str(call.drawn.n[2])

(* C27: the expansion is one pass over the template: the characters made   *)
(* for a token are not expanded again, so "%%r[1]" gives "%" followed by   *)
(* the character drawn for %r[1], and the sequences of "%" that are no     *)
(* token stay as they are.                                                 *)
C27_SinglePassOverTemplate ==
    call.function = "_format_replacement_variables"
    => /\ call.template = <<"%", "%", "r", "[", "1", "]">>
          => call.result = <<"%">> \o call.drawn.r[1]
       /\ call.template \in { <<"%", "z", "%", " ", "1", "%">>,
                              <<"%", "n", "[", "1", "]", "%", "x", "%", "r",
                                "[", "]">>,
                              <<"i", "d">> }
          => call.result = call.template

C29_OnlyNumberAndUnitAccepted ==
    call.function = "_parse_duration"
    => LET s == call.duration_str
           IsNumber(t) ==
               /\ t # <<>>
               /\ \/ \A i \in 1..Len(t) : t[i] \in Digits
                  \/ \E d \in 2..(Len(t) - 1) :
                        /\ t[d] = "."
                        /\ \A i \in (1..Len(t)) \ {d} : t[i] \in Digits
           Units == { <<>>, <<"s">>, <<"m">>, <<"h">>,
                      <<"S">>, <<"M">>, <<"H">> }
           accepted(t) ==
               \E n \in 1..Len(t) :
                   /\ IsNumber(SubSeq(t, 1, n))
                   /\ SubSeq(t, n + 1, Len(t)) \in Units
       IN  /\ s.type = "int" => ~call.raises /\ call.result = s.number
           /\ s.type = "str"
              => /\ call.raises = ~accepted(s.chars)
                 /\ call.raises
                    => call.message = <<"Invalid duration format: ", s.chars>>

(* C29, as the code has it: the string is first stripped of the white      *)
(* space at its ends and lowered, and white space may stand between the    *)
(* number and the unit; the strings of that form give the whole part of    *)
(* the number (the fractions followed are zeros) times the multiplier of   *)
(* the unit, all the others fail with a format error that names the        *)
(* stripped and lowered string.  A number is returned as it is.            *)
C29_StrippedNumberSpaceUnit ==
    call.function = "_parse_duration"
    => LET s == call.duration_str
           IsDigits(t) == t # <<>> /\ \A i \in 1..Len(t) : t[i] \in Digits
           IsSpace(t) == \A i \in 1..Len(t) : t[i] \in Whitespace
           Mult(u) == IF u \in {<<"m">>, <<"M">>} THEN 60
                      ELSE IF u \in {<<"h">>, <<"H">>} THEN 3600 ELSE 1
           Units == { <<>>, <<"s">>, <<"m">>, <<"h">>,
                      <<"S">>, <<"M">>, <<"H">> }
           Part(t, a, b) == SubSeq(t, a + 1, b)
           (* cuts of the string: space, digits, fraction, space, unit,   *)
           (* space                                                        *)
           Forms(t) ==
               { c \in [1..5 -> 0..Len(t)] :
                   /\ \A i \in 1..4 : c[i] <= c[i + 1]
                   /\ IsSpace(Part(t, 0, c[1]))
                   /\ IsDigits(Part(t, c[1], c[2]))
                   /\ \/ c[3] = c[2]
                      \/ /\ c[3] > c[2] + 1
                         /\ t[c[2] + 1] = "."
                         /\ IsDigits(Part(t, c[2] + 1, c[3]))
                   /\ IsSpace(Part(t, c[3], c[4]))
                   /\ Part(t, c[4], c[5]) \in Units
                   /\ IsSpace(Part(t, c[5], Len(t))) }
       IN  /\ s.type = "int" => ~call.raises /\ call.result = s.number
           /\ s.type = "str"
              => /\ call.raises = (Forms(s.chars) = {})
                 /\ \A c \in Forms(s.chars) :
                      call.result =
                          ToNumber(Part(s.chars, c[1], c[2]))
                              * Mult(Part(s.chars, c[4], c[5]))
                 /\ call.raises
                    => \E a, b \in 0..Len(s.chars) :
                          /\ a <= b
                          /\ IsSpace(Part(s.chars, 0, a))
                          /\ IsSpace(Part(s.chars, b, Len(s.chars)))
                          /\ a < b => /\ s.chars[a + 1] \notin Whitespace
                                      /\ s.chars[b] \notin Whitespace
                          /\ call.message =
                                <<"Invalid duration format: ",
                                  lower(Part(s.chars, a, b))>>

(* a string with white space at both ends is accepted *)
C29_Witness ==
    /\ call.function = "_parse_duration"
    /\ call.duration_str = Str(<<" ", "5", "m", " ">>)
    /\ ~call.raises
    /\ call.result = 300

(* C30: in a run where the generator processes exit and the threads are    *)
(* scheduled fairly, execute_scenario, once it schedules the steps, comes  *)
(* to its return with a verdict, every worker thread having ended,         *)
(* whatever failed in the iterations.                                      *)
C30_EveryWorkerEndsAndVerdictReturned ==
    (mainpc = "schedule")
        ~> (/\ mainpc = "returned"
            /\ result \in {"True", "False"}
            /\ step_threads = Len(steps)
            /\ \A k \in Threads : pc[k] = "done")

(* a run of two workers with a failed iteration that has returned, both   *)
(* workers having run their iterations                                     *)
C30_Witness ==
    /\ mainpc = "returned"
    /\ result \in {"True", "False"}
    /\ anyFailed
    /\ step_threads = MaxSteps
    /\ \A k \in Threads : pc[k] = "done" /\ iteration[k] >= 1

(* C31: a worker thread follows the state machine of a step and nothing    *)
(* else: started, it waits the start offset, then runs the iterations one  *)
(* after the other, the interval wait before each but the first; the       *)
(* number of the iteration starts at 1 and goes up by exactly one when an  *)
(* iteration ends, and never exceeds the iterations of the step; the       *)
(* thread ends in a state it never leaves; and when no stop was requested  *)
(* and no error ended the thread, it has run exactly the iterations of the *)
(* step.                                                                   *)
C31_WorkerStateMachine ==
    /\ [][\A k \in Workers :
            /\ pc'[k] # pc[k]
               => <<pc[k], pc'[k]>> \in
                    { <<"unstarted", "start">>,
                      <<"start", "offset_sleep">>, <<"start", "check_stop">>,
                      <<"offset_sleep", "check_stop">>,
                      <<"check_stop", "loop">>, <<"check_stop", "done">>,
                      <<"loop", "iterate">>, <<"loop", "interval_sleep">>,
                      <<"loop", "done">>,
                      <<"interval_sleep", "iterate">>,
                      <<"iterate", "reading">>, <<"iterate", "loop">>,
                      <<"iterate", "done">>,
                      <<"reading", "post">>, <<"post", "reading">>,
                      <<"reading", "wait">>, <<"reading", "loop">>,
                      <<"wait", "loop">> }
            /\ pc[k] = "loop" /\ pc'[k] = "iterate" => iteration[k] = 0
            /\ pc[k] = "loop" /\ pc'[k] = "interval_sleep" => iteration[k] > 0
            /\ iteration'[k] # iteration[k]
               => /\ iteration'[k] = iteration[k] + 1
                  /\ pc[k] \in {"iterate", "reading", "post", "wait"}
                  /\ pc'[k] = "loop"
            /\ pc[k] \in {"iterate", "reading", "post", "wait"}
                  /\ pc'[k] = "loop"
               => iteration'[k] = iteration[k] + 1]_vars
    /\ [](\A k \in Threads :
            /\ pc[k] \in {"unstarted", "start", "offset_sleep", "check_stop"}
               => iteration[k] = 0
            /\ pc[k] \in {"iterate", "interval_sleep", "reading", "post",
                          "wait"}
               => iteration[k] + 1 <= StepOf(k).iterations
            /\ iteration[k] > 0 => iteration[k] <= StepOf(k).iterations
            /\ pc[k] = "done" /\ ~stop_event
                  /\ ~create_step_sender_raises(StepOf(k).parameters)
               => /\ iteration[k] = IF StepOf(k).iterations > 0
                                     THEN StepOf(k).iterations
                                     ELSE 0
                  /\ proc[k] = "none")

(* a worker that has run the iterations of a repeating step, the stop flag *)
(* clear, while the other worker is in its first iteration                 *)
C31_Witness ==
    \E k, j \in Threads :
        /\ pc[k] = "done"
        /\ ~stop_event
        /\ StepOf(k).iterations = MaxIter
        /\ iteration[k] = MaxIter
        /\ pc[j] = "reading"
        /\ iteration[j] = 0


(* C32: a step whose iterations are 0 or negative is accepted by           *)
(* load_scenario; its thread waits the start offset and then ends without  *)
(* building a sender, starting a generator or delivering a line; its moves *)
(* change nothing of another thread, of the stop flag or of the verdict.   *)
C32_NoIterationsStep ==
    /\ [](mainpc = "load_error"
            => document \notin
                 { Named(List(l)) :
                     l \in { m \in StepLists(StepData) :
                               /\ \E i \in 1..Len(m) :
                                     get(m[i].items, "iterations", 1) <= 0
                               /\ \A i \in 1..Len(m) :
                                     get(m[i].items, "start_time",
                                         Seconds(0)) # Number(-1) } })
    /\ [](\A k \in Threads :
            StepOf(k).iterations <= 0
            => /\ pc[k] \in {"start", "offset_sleep", "check_stop", "loop",
                             "done"}
               /\ pc[k] \in {"check_stop", "loop"}
                  => sinceLaunch[k] = StepOf(k).start_time_seconds
               /\ iteration[k] = 0
               /\ step_sender[k] = NoSender
               /\ proc[k] = "none"
               /\ alive[k] = {}
               /\ produced[k] = <<>>
               /\ delivered[k] = <<>>
               /\ sent_count[k] = 0
               /\ reported[k] = NoReport)
    /\ [][\A k \in Threads :
            StepOf(k).iterations <= 0 /\ pc'[k] # pc[k] /\ pc[k] # "unstarted"
            => /\ pc'[k] = "done" => pc[k] \in {"check_stop", "loop"}
               /\ \A j \in Workers \ {k} :
                     /\ pc'[j] = pc[j]
                     /\ iteration'[j] = iteration[j]
                     /\ rem'[j] = rem[j]
                     /\ proc'[j] = proc[j]
                     /\ delivered'[j] = delivered[j]
                     /\ reported'[j] = reported[j]
               /\ UNCHANGED <<mainVars, anyFailed>>]_vars
    /\ [](mainpc = "returned" /\ ~interrupted
            /\ (\A k \in Threads : StepOf(k).iterations <= 0)
            => result = Returned(TRUE) /\ ~anyFailed)

(* execute_scenario has returned True for a delayed step with a negative   *)
(* number of iterations and a step that has run its two iterations         *)
C32_Witness ==
    /\ mainpc = "returned"
    /\ result = Returned(TRUE)
    /\ \E k, j \in Threads :
          /\ StepOf(k).iterations < 0
          /\ StepOf(k).start_time_seconds = MaxStart
          /\ pc[k] = "done"
          /\ StepOf(j).iterations = MaxIter
          /\ iteration[j] = MaxIter
          /\ pc[j] = "done"


(* C33: the worker threads never wait for one another. While the executor  *)
(* runs, whether the thread of a step can take its next step depends on    *)
(* its own position, its own sleep and its own generator process only (a   *)
(* thread is held up by nothing but its running sleep, its generator that  *)
(* has neither written a line nor closed its output, or its generator that *)
(* has not exited), and a step of one thread changes nothing of another    *)
(* thread; in particular a thread at the start of an iteration can start   *)
(* it while the generator of another step runs.                            *)
C33_WorkersIndependent ==
    /\ [](\A k \in Threads :
            ENABLED WorkerStep(k)
            <=> /\ Live
                /\ \/ pc[k] \in {"start", "check_stop", "loop", "iterate",
                                 "post"}
                   \/ pc[k] \in Sleeping /\ rem[k] = 0
                   \/ /\ pc[k] = "reading"
                      /\ \/ proc[k] \in {"eof", "exited"}
                         \/ /\ proc[k] = "running"
                            /\ Len(produced[k]) < LineBound
                   \/ pc[k] = "wait" /\ proc[k] = "exited")
    /\ [](\A k, j \in Threads :
            k # j /\ Live /\ pc[k] = "iterate" /\ proc[j] = "running"
            => ENABLED StartIteration(k))
    /\ [][\A k, j \in Workers :
            k # j /\ pc'[k] # pc[k]
            => /\ pc'[j] = pc[j]
               /\ iteration'[j] = iteration[j]
               /\ rem'[j] = rem[j]
               /\ step_sender'[j] = step_sender[j]
               /\ proc'[j] = proc[j]
               /\ returncode'[j] = returncode[j]
               /\ produced'[j] = produced[j]
               /\ line_count'[j] = line_count[j]
               /\ sent_count'[j] = sent_count[j]
               /\ filtered_count'[j] = filtered_count[j]
               /\ delivered'[j] = delivered[j]
               /\ alive'[j] = alive[j]]_vars

(* the delayed step has started its iteration while the repeating step is  *)
(* in its second iteration: two generators run at the same time            *)
C33_Witness ==
    \E k, j \in Threads :
        /\ k # j
        /\ StepOf(k).start_time_seconds = MaxStart
        /\ pc[k] = "reading"
        /\ proc[k] = "running"
        /\ iteration[j] = 1
        /\ pc[j] = "reading"
        /\ proc[j] = "running"


(* The part of C34 about the order of filter and rewrite: the filters are  *)
(* tested on the line the generator wrote (stripped) and the rewrite rules *)
(* are applied afterwards, to the lines that passed.  A line that fails    *)
(* the filters is counted as filtered, nothing is delivered for it and no  *)
(* rule is evaluated for it: also with a rule whose evaluation raises,     *)
(* reading it never ends the iteration.  A line that passes is never       *)
(* counted as filtered nor skipped, and what is delivered for it is its    *)
(* rewritten form, whether or not that form matches a filter.              *)
C34_FilterDecisionOnOriginalLine ==
    /\ [](\A k \in Threads : \A line \in Lines :
            /\ Live
            /\ pc[k] = "reading"
            /\ proc[k] = "running"
            /\ Len(produced[k]) < LineBound
            /\ strip(line) # <<>>
            => IF matches_filters(StepOf(k), strip(line))
               THEN ~ENABLED (/\ ReadLine(k, line, "200")
                              /\ \/ filtered_count'[k] =
                                        filtered_count[k] + 1
                                 \/ pc'[k] = "reading")
               ELSE /\ ENABLED (/\ ReadLine(k, line, "200")
                                /\ pc'[k] = "reading"
                                /\ filtered_count'[k] = filtered_count[k] + 1
                                /\ delivered'[k] = delivered[k])
                    /\ ~ENABLED (/\ ReadLine(k, line, "200")
                                 /\ \/ pc'[k] # "reading"
                                    \/ delivered'[k] # delivered[k]))
    /\ [][\A k \in Threads :
            pc[k] = "reading" /\ pc'[k] = "post"
            => LET line == strip(produced'[k][Len(produced'[k])]) IN
               /\ matches_filters(StepOf(k), line)
               /\ Len(delivered'[k]) = Len(delivered[k]) + 1
               /\ \E draws \in RuleDraws(StepOf(k)) :
                     delivered'[k][Len(delivered'[k])].line =
                         apply_replacements(StepOf(k), line, draws)]_vars

(* C34: the filter decision is taken on the generator's line and the       *)
(* rewrite rules are applied only afterwards, to lines that passed; rules  *)
(* are never evaluated for a filtered-out line; and a rewrite never        *)
(* changes whether a line is delivered: a line that passes the filters and *)
(* that would be delivered as it is, is delivered, whatever the rewrite    *)
(* rules of the step.                                                      *)
C34_FilterBeforeRewrite ==
    /\ C34_FilterDecisionOnOriginalLine
    /\ [](\A k \in Threads : \A line \in Lines :
            (/\ Live
             /\ pc[k] = "reading"
             /\ proc[k] = "running"
             /\ Len(produced[k]) < LineBound
             /\ strip(line) # <<>>
             /\ matches_filters(StepOf(k), strip(line))
             /\ ~parse_flog_line_raises(strip(line)))
            => /\ ENABLED (ReadLine(k, line, "200") /\ pc'[k] = "post")
               /\ ~ENABLED (ReadLine(k, line, "200") /\ pc'[k] # "post"))

(* C35: once the stop flag is set a worker starts at most one more         *)
(* iteration.  The flag is read at the top of the loop, before the         *)
(* interval sleep, and not after it: with the flag set a worker at the top *)
(* of the loop can only end, and an iteration is started only from the top *)
(* of the loop, directly or through the interval sleep, so a second start  *)
(* would have to pass the top of the loop with the flag set; a worker in   *)
(* its interval sleep with the flag set can only go on to the pending      *)
(* iteration, which it can start while the executor is still there.        *)
C35_AtMostOneMoreIteration ==
    /\ [][\A k \in Workers :
            /\ stop_event /\ pc[k] = "loop" /\ pc'[k] # pc[k]
               => pc'[k] = "done"
            /\ pc'[k] = "interval_sleep" /\ pc[k] # "interval_sleep"
               => pc[k] = "loop" /\ ~stop_event
            /\ pc'[k] = "iterate" /\ pc[k] # "iterate"
               => \/ pc[k] = "loop" /\ ~stop_event
                  \/ pc[k] = "interval_sleep"
            /\ pc[k] = "iterate" /\ pc'[k] # pc[k]
               => pc'[k] \in {"reading", "loop", "done"}
            /\ pc[k] \in InIteration /\ pc'[k] \notin InIteration
               => pc'[k] = "loop"
            /\ stop_event /\ pc[k] = "interval_sleep" /\ pc'[k] # pc[k]
               => pc'[k] = "iterate" /\ iteration'[k] = iteration[k]]_vars
    /\ [](\A k \in Threads :
            stop_event /\ Live
            => /\ pc[k] = "interval_sleep" /\ rem[k] = 0
                  => ENABLED (IntervalWake(k) /\ pc'[k] = "iterate")
               /\ pc[k] = "iterate" /\ iteration[k] > 0
                  => ENABLED (StartIteration(k) /\ pc'[k] = "reading"))

(* the second iteration of a step with an interval runs, its generator     *)
(* started after the stop flag was set: the flag was set after the test at *)
(* the top of the loop, in the interval sleep or at its end                *)
C35_Witness ==
    \E k \in Threads :
        /\ stop_event
        /\ StepOf(k).interval_seconds = MaxInterval
        /\ iteration[k] = 1
        /\ pc[k] = "reading"
        /\ proc[k] = "running"
        /\ produced[k] = <<>>
        /\ ~midAtStop[k]


(* C36: the stop flag of an executor is monotonic.  It is clear until the  *)
(* first interruption, it changes only when the interruption handler of    *)
(* execute_scenario sets it, and once set it stays set, over later calls   *)
(* of execute_scenario too.  The handler that sets the flag also makes     *)
(* `success` False for the rest of its call, so the flag set with          *)
(* `success` True marks a call that began with the flag set: in such a     *)
(* call no thread gets past the test after its initial wait, no iteration  *)
(* is run, no generator started, nothing delivered.                        *)
C36_StopFlagMonotonic ==
    /\ [](~interrupted => ~stop_event)
    /\ [][stop_event' # stop_event
            => /\ stop_event'
               /\ mainpc = "join"
               /\ mainpc' = "grace"
               /\ ~success']_vars
    /\ [][stop_event => stop_event']_vars
    /\ [](stop_event => interrupted /\ (mainpc = "grace" => ~success))
    /\ [](stop_event /\ success
            => \A k \in Workers :
                  /\ pc[k] \in {"unstarted", "start", "offset_sleep",
                                "check_stop", "done"}
                  /\ iteration[k] = 0
                  /\ proc[k] = "none"
                  /\ delivered[k] = <<>>)
    /\ [][stop_event /\ success => iteration' = iteration]_vars

(* in a call made after an interrupted call has returned False, the thread *)
(* of a step with iterations has ended without running one and the thread  *)
(* of a delayed step has ended as well                                     *)
C36_Witness ==
    /\ stop_event
    /\ success
    /\ result = Returned(FALSE)
    /\ mainpc = "join"
    /\ step_threads = MaxSteps
    /\ \A k \in Threads : pc[k] = "done" /\ iteration[k] = 0
    /\ \E k \in Threads : StepOf(k).iterations = MaxIter
    /\ \E k \in Threads : StepOf(k).start_time_seconds = MaxStart


(* C37: whatever the outcome of an iteration, the sent count that          *)
(* _process_flog_output_with_filters returns is the number of lines that   *)
(* were handed to send_log in the iteration, and the filtered count it     *)
(* returns is the number of lines the filters rejected.                    *)
C37_ReturnedCountsAreTheCounts ==
    [][\A k \in Workers :
          pc[k] \in {"iterate", "reading", "post", "wait"} /\ pc'[k] = "loop"
          => /\ reported'[k].made
             /\ reported'[k].log_count = Len(delivered[k])
             /\ reported'[k].filtered_count = filtered_count[k]]_vars


(* The part of C38 about the executions and the waits:                     *)
(* run_recurring_executions with max_executions = N > 0, when no interrupt *)
(* stops it, calls process_flog_output exactly N times, one call after the *)
(* other, whether the calls succeed or fail, sleeps wait_time in full      *)
(* after every call but the last and nowhere else, and then returns True;  *)
(* with max_executions = 0 it goes on to a further call after every call   *)
(* and returns only when an interrupt has stopped it.                      *)
C38_ExecutionsAndWaits ==
    /\ [](call.function = "run_recurring_executions"
            => /\ call.runs =
                    call.execution_count
                      - (IF call.at = "execute" THEN 1 ELSE 0)
               /\ call.max_executions > 0 => call.runs <= call.max_executions
               /\ call.wait_time = 0 => call.waits = 0
               /\ call.wait_time > 0
                  => /\ call.at \in {"while", "execute", "sleep"}
                        => call.waits = call.runs
                     /\ call.at = "check" => call.waits = call.runs - 1
                     /\ call.waits \in {call.runs - 1, call.runs}
               /\ call.at = "sleep"
                  => /\ call.max_executions = 0
                        \/ call.runs < call.max_executions
                     /\ call.runs > 0
               /\ call.at \in {"summary", "returned"} /\ ~call.stopped
                  => /\ call.max_executions > 0
                     /\ call.runs = call.max_executions
                     /\ call.waits = IF call.wait_time > 0
                                     THEN call.max_executions - 1
                                     ELSE 0
               /\ call.at = "returned" /\ ~call.stopped
                  => call.result = Returned(TRUE))
    /\ [][call.function = "run_recurring_executions"
          /\ call'.function = "run_recurring_executions"
            => /\ call.at = "sleep" /\ call'.at = "while" => call.rem = 0
               /\ call.at # "sleep" /\ call'.at = "sleep"
                  => call'.rem = call.wait_time /\ call.at = "check"
               /\ call.at = "check" /\ call'.at \notin {"check", "summary"}
                  => IF call.wait_time > 0
                     THEN call'.at = "sleep"
                     ELSE call'.at = "while"
               /\ call.at = "check" /\ call'.at = "summary"
                  => \/ call'.stopped
                     \/ /\ call.max_executions > 0
                        /\ call.runs = call.max_executions
               /\ call.at = "while" /\ call'.at = "summary"
                  => \/ call'.stopped
                     \/ /\ call.max_executions > 0
                        /\ call.runs = call.max_executions]_vars

(* C38: run_recurring_executions with max_executions = N > 0 runs the      *)
(* generator exactly N times, one run after the other, waits wait_time     *)
(* only between two consecutive executions, goes on after a failed         *)
(* execution and then returns; with max_executions = 0 it keeps executing  *)
(* until it is interrupted: once an interrupt has arrived, no further      *)
(* execution is made.                                                      *)
C38_RecurringExecutions ==
    /\ C38_ExecutionsAndWaits
    /\ [][(/\ call.function = "run_recurring_executions"
           /\ call'.function = "run_recurring_executions"
           /\ call.max_executions = 0
           /\ call.interrupts > 0)
            => call'.runs = call.runs]_vars

====
